---- MODULE Spec2Model ----
(***************************************************************************)
(* Presentation API polyfill (mediascape/presentation-api-polyfill).       *)
(*                                                                         *)
(* The model follows API/src/core.js and the mechanisms it is loaded with  *)
(* (window.js, cast.js, physicalweb.js, dial.js, qrcode.js).  One action   *)
(* is one task of the browser's event loop together with the promise       *)
(* reactions (microtasks) it triggers; calls made by the application on    *)
(* the public objects are actions as well.                                 *)
(*                                                                         *)
(*   Spec            the controlling page: PresentationRequest.start, up   *)
(*                   to the creation of the connections                    *)
(*   SpecConnection  one connection of the controlling page                *)
(*   SpecReceiver    the receiving page: PresentationReceiver and the      *)
(*                   connections created for incoming controllers          *)
(*   SpecIncoming    the receiving page: the controllers reported and      *)
(*                   the promises of receiver.getConnection()              *)
(*   SpecChannel     DataChannel objects on their own                      *)
(*   SpecOptional    the controlling page with the mechanisms that cannot  *)
(*                   establish a channel, and getAvailability()            *)
(*   SpecMonitor     the receiving page with the DIAL mechanism, the tasks *)
(*                   the page has queued being run (weak fairness)         *)
(*   SpecAvailability  the controlling page with an availability object    *)
(*                   in the set that the discovery loop watches            *)
(*   SpecRejecting   one connection, its Cast session possibly without a   *)
(*                   namespace                                             *)
(*   SpecWindows     the window mechanism with its two pages and the       *)
(*                   messages between them                                 *)
(*   SpecServer      the DIAL proxy server (unnamed/part_002): its list of *)
(*                   known devices                                         *)
(***************************************************************************)
EXTENDS Integers, Sequences, FiniteSets, TLC

(***************************************************************************)
(* Bounds of the exploration.                                              *)
(***************************************************************************)
MaxMechs == 2          \* registered mechanisms
MaxStarts == 2         \* calls of start()
MaxReconnects == 1     \* calls of reconnect()
MaxControllers == 2    \* incoming controllers reported to the receiver
MaxGets == 2           \* calls of receiver.getConnection()
MaxChans == 3          \* DataChannel objects ever created

Urls == {"u1", "u2"}

NoChannel == 0         \* JavaScript null for a channel reference
NoId == -1             \* JavaScript null for a connection id

VARIABLES
  phase,                  \* "loading" | "loaded" | "monitoring"
  registeredMechanisms,   \* core.js:115
  castApiAvailable,       \* cast.js:51
  conns,                  \* the PresentationConnection objects, by creation
  channels,               \* the DataChannel objects: their state, by creation
  microtasks,             \* connections whose channel promise is resolved
                          \* but whose reaction has not run yet
  lastOp,                 \* what the last action did (history)
  \* PresentationReceiver (core.js:979-1130)
  monitorQueued,
  rcvConnection,          \* the variable "connection" of core.js:1094
  setOfIncomingPresentations,
  rcvNotified,            \* number of receiver.onconnectionavailable calls
  rcvPending,             \* getConnection(): the promises, core.js:1008-1087
  reported,               \* controllers reported so far, by mechanism index
  \* PresentationRequest (core.js:600-962)
  setOfPresentations,     \* core.js:607
  listOfAvailablePresentationDisplays,   \* core.js:626
  starts,                 \* the calls of start(), by call
  reconnects,             \* the calls of reconnect(), by call
  setOfAvailabilityObjects,  \* core.js:617
  pw,                     \* PhysicalWebPresentationMechanism's variables
  \* DIAL proxy server (unnamed/part_002)
  dialDevices,            \* part_002:29
  dialSearch              \* the devices on the network as the DIAL client
                          \* has announced them (history), and the calls of
                          \* getDialDevice in flight

receiverVars == <<monitorQueued, rcvConnection, setOfIncomingPresentations,
                  rcvNotified, rcvPending, reported>>
requestVars == <<setOfPresentations, listOfAvailablePresentationDisplays,
                 starts, reconnects, setOfAvailabilityObjects, pw>>
serverVars == <<dialDevices, dialSearch>>
vars == <<phase, registeredMechanisms, castApiAvailable, conns, channels,
          microtasks, lastOp, receiverVars, requestVars, serverVars>>

(***************************************************************************)
(* Presentation mechanisms and the remote peers they create.               *)
(*   "window"       WindowPresentationMechanism             window.js:208  *)
(*   "cast"         CastPresentationMechanism               cast.js:332    *)
(*   "physicalweb"  PhysicalWebPresentationMechanism  physicalweb.js:169   *)
(***************************************************************************)
MechKinds == {"window", "cast", "physicalweb"}

DisplayKinds == {"WindowDisplay", "CastDisplay", "PhysicalWebDisplay"}

\* The mechanisms that cannot set up a message channel by themselves, and
\* their displays: createDataChannel never settles, dial.js:262-266,
\* qrcode.js:160-164, physicalweb.js:141-145.
ChannelLessMechs == {"dial", "qrcode", "physicalweb"}
ChannelLessDisplays == {"DialDisplay", "QRCodeDisplay", "PhysicalWebDisplay"}
ControllerKinds == {"WindowRemoteController", "CastRemoteController"}

ChannelStates == {"closed", "connecting", "connected", "terminated"}

\* The controller a mechanism hands to its onincomingcontroller handler
\* (window.js:229-246, cast.js:370-377).  The Physical Web mechanism keeps
\* monitorIncomingControllers of the base class (core.js:349-352), which
\* reports none.
ReportsControllers(mech) == mech \in {"window", "cast"}

ControllerOf(mech) ==
  IF mech = "window" THEN "WindowRemoteController"
  ELSE "CastRemoteController"

\* Does the remote peer define terminate()?  Display does (core.js:296),
\* RemoteController (core.js:204-233) does not and WindowRemoteController
\* (window.js:47-95) adds none; CastRemoteController does (cast.js:132).
HasTerminate(peer) ==
  peer \in DisplayKinds \cup {"CastRemoteController"}

(***************************************************************************)
(* PresentationConnection (core.js:381-526).  A "world" w is the part of   *)
(* the state the connection code reads and writes: the connections, the    *)
(* channels and the onstatechange notifications raised so far in the       *)
(* current action.                                                         *)
(***************************************************************************)
NewConnection(peer) ==
  [ peer |-> peer,
    id |-> NoId,                \* core.js:389
    state |-> "closed",         \* core.js:396
    channel |-> NoChannel,      \* core.js:419
    pendingPromise |-> FALSE,   \* core.js:436
    \* the remote peer
    creating |-> NoChannel,     \* channel of the creation in flight
    inflight |-> "none",        \* "none"|"sync"|"requested"|"never"|
                                \* "rejected"
    namespaces |-> TRUE,        \* the Cast session has a namespace
    listeners |-> <<>>,         \* channels with a listener on the peer
    peerOpen |-> TRUE,          \* receiving window open (WindowDisplay)
    shutdownPending |-> FALSE,  \* 'receivershutdown' posted, not delivered
    wire |-> "none",            \* the answer to 'channel': "none" |
                                \* "channelready" (posted, not delivered) |
                                \* "lost" (nobody answered)
    answered |-> NoChannel,     \* the receiving window's channel that
                                \* answered 'channel' last
    \* bookkeeping
    rcvThen |-> FALSE,          \* reaction of core.js:1100 attached
    estTasks |-> 0,             \* queued tasks of core.js:942
    eventTasks |-> 0,           \* queued tasks of core.js:929
    terminateCalled |-> FALSE ]

World == [conns |-> conns, channels |-> channels, notes |-> <<>>]

Notify(w, c) ==
  [w EXCEPT !.notes = Append(@, [conn |-> c, state |-> w.conns[c].state])]

\* A handler that follows the channel's state but keeps the reference.
OnStateChangeKeep(w, c) ==
  LET ch == w.conns[c].channel IN
  IF ch = NoChannel THEN w
  ELSE IF w.channels[ch] # w.conns[c].state
  THEN Notify([w EXCEPT !.conns[c].state = w.channels[ch]], c)
  ELSE w

\* channel.onstatechange installed by the connection, core.js:449-460.  The
\* handler reads the connection's variable "channel", whichever channel
\* object raised the event.
OnStateChange(w, c) ==
  LET ch == w.conns[c].channel IN
  IF ch = NoChannel
  THEN w      \* channel.state on null: TypeError inside the event handler
  ELSE LET w1 == IF w.channels[ch] # w.conns[c].state
                 THEN Notify([w EXCEPT !.conns[c].state = w.channels[ch]], c)
                 ELSE w
       IN IF w.channels[ch] # "connected"
          THEN [w1 EXCEPT !.conns[c].channel = NoChannel]
          ELSE w1

\* The reaction to the remote peer's promise, core.js:446-472.
ThenDataChannel(w, c) ==
  LET ch == w.conns[c].creating
      w1 == [w EXCEPT !.conns[c].pendingPromise = FALSE,
                      !.conns[c].channel = ch,
                      !.conns[c].creating = NoChannel,
                      !.conns[c].inflight = "none"]
  IN IF w1.conns[c].state # w1.channels[ch]
     THEN Notify([w1 EXCEPT !.conns[c].state = w1.channels[ch]], c)
     ELSE w1

Remove(s, x) == SelectSeq(s, LAMBDA y : y # x)

\* A close() that does not look at the state of the channel first.
DataChannelCloseUnguarded(w, c) ==
  LET ch == w.conns[c].channel
  IN OnStateChange([w EXCEPT !.channels[ch] = "closed"], c)

\* channel.close(): DataChannel.close core.js:180-188 and the overrides of
\* window.js:83-92, window.js:183-192, cast.js:118-126, cast.js:296-306.
DataChannelClose(w, c) ==
  LET ch == w.conns[c].channel
      peer == w.conns[c].peer IN
  IF w.channels[ch] # "connected"
  THEN w
  ELSE LET w1 == [w EXCEPT !.channels[ch] = "closed",
                    \* cast.js:300-301 removes its listeners; window.js:187
                    \* removes a listener for 'messsage', that is none
                    !.conns[c].listeners =
                       IF peer = "CastDisplay" THEN Remove(@, ch) ELSE @]
       IN OnStateChange(w1, c)

\* remotePeer.createDataChannel():
\*   WindowRemoteController window.js:50-94,
\*   WindowDisplay window.js:138-194, CastRemoteController cast.js:98-130,
\*   CastDisplay cast.js:253-310, PhysicalWebDisplay physicalweb.js:141-145
PeerCreateDataChannel(w, c) ==
  LET peer == w.conns[c].peer
      fresh == Len(w.channels) + 1 IN
  CASE peer = "CastRemoteController" ->
         [w EXCEPT !.channels = Append(@, "connected"),
                   !.conns[c].creating = fresh,
                   !.conns[c].inflight = "sync"]
    [] peer = "CastDisplay" ->
         \* cast.js:283-285 reads castSession.namespaces[0].name: with no
         \* namespace in the session the executor throws and the promise
         \* is rejected; the channel object made before is dropped
         IF w.conns[c].namespaces
         THEN [w EXCEPT !.channels = Append(@, "connected"),
                        !.conns[c].creating = fresh,
                        !.conns[c].listeners = Append(@, fresh),
                        !.conns[c].inflight = "sync"]
         ELSE [w EXCEPT !.conns[c].inflight = "rejected"]
    [] peer = "WindowRemoteController" ->
         [w EXCEPT !.channels = Append(@, "closed"),
                   !.conns[c].creating = fresh,
                   !.conns[c].inflight = "requested"]
    [] peer = "WindowDisplay" ->
         [w EXCEPT !.channels = Append(@, "connected"),
                   !.conns[c].creating = fresh,
                   !.conns[c].inflight =
                      IF w.conns[c].peerOpen THEN "requested" ELSE "never"]
    [] OTHER ->   \* PhysicalWebDisplay: the promise never settles
         [w EXCEPT !.conns[c].inflight = "never"]

\* Does PeerCreateDataChannel allocate a DataChannel object?
Allocates(cn) ==
  /\ cn.peer # "PhysicalWebDisplay"
  /\ ~(cn.peer = "CastDisplay" /\ ~cn.namespaces)

\* connection.createDataChannel(), core.js:435-475.  The result is what the
\* caller gets: "TypeError" (pendingPromise is a promise, core.js:439 calls
\* it), "existing" (the channel held) or "created" (a creation was started).
CreateDataChannelResult(cn) ==
  IF cn.pendingPromise THEN "TypeError"
  ELSE IF cn.channel # NoChannel THEN "existing"
  ELSE "created"

\* A createDataChannel() that asks the peer twice.
CreateDataChannelTwice(w, c) ==
  IF CreateDataChannelResult(w.conns[c]) = "created"
  THEN PeerCreateDataChannel(
         PeerCreateDataChannel([w EXCEPT !.conns[c].pendingPromise = TRUE],
                               c), c)
  ELSE w

\* The peer is asked once, when no creation is pending and no channel is
\* held (core.js:446).
CreateDataChannel(w, c) ==
  IF CreateDataChannelResult(w.conns[c]) = "created"
  THEN PeerCreateDataChannel([w EXCEPT !.conns[c].pendingPromise = TRUE], c)
  ELSE w

CanCreate(w, c) ==
  (CreateDataChannelResult(w.conns[c]) = "created" /\ Allocates(w.conns[c]))
     => Len(w.channels) < MaxChans

\* A channel that only refuses to send once it is closed.
DataChannelSendUnlessClosed(state) ==
  IF state = "closed" THEN "InvalidStateError" ELSE "sent"

\* channel.send(message): DataChannel.send core.js:159-163 and the
\* overrides window.js:75-81, window.js:175-181, cast.js:110-116,
\* cast.js:287-294, which all start with the same test.
DataChannelSend(state) ==
  IF state # "connected" THEN "InvalidStateError" ELSE "sent"

\* A send() that looks at the channel only, not at the connection's state.
SendResultAnyState(w, c) ==
  LET cn == w.conns[c] IN
  IF cn.channel = NoChannel THEN "InvalidStateError: not available"
  ELSE DataChannelSend(w.channels[cn.channel])

\* connection.send(message), core.js:484-492
SendResult(w, c) ==
  LET cn == w.conns[c] IN
  IF cn.channel = NoChannel THEN "InvalidStateError: not available"
  ELSE IF cn.state # "connected" THEN "InvalidStateError: closed"
  ELSE DataChannelSend(w.channels[cn.channel])

\* connection.close(), core.js:500-506
ConnectionClose(w, c) ==
  IF w.conns[c].channel = NoChannel THEN w ELSE DataChannelClose(w, c)

\* remotePeer.terminate(): WindowDisplay window.js:196-199 closes the
\* receiving window, which posts 'receivershutdown' when it unloads
\* (window.js:251-258).
PeerTerminate(w, c) ==
  IF w.conns[c].peer = "WindowDisplay" /\ w.conns[c].peerOpen
  THEN [w EXCEPT !.conns[c].peerOpen = FALSE,
                 !.conns[c].shutdownPending = TRUE]
  ELSE w

\* connection.terminate(), core.js:514-525
TerminateResult(cn) == IF HasTerminate(cn.peer) THEN "ok" ELSE "TypeError"

ConnectionTerminate(w, c) ==
  LET w0 == [w EXCEPT !.conns[c].terminateCalled = TRUE]
      w1 == IF w0.conns[c].channel # NoChannel
            THEN DataChannelClose(w0, c) ELSE w0
  IN IF ~HasTerminate(w1.conns[c].peer)
     THEN w1     \* remotePeer.terminate is not a function
     ELSE LET w2 == PeerTerminate(w1, c)
          IN IF w2.conns[c].state # "terminated"
             THEN Notify([w2 EXCEPT !.conns[c].state = "terminated"], c)
             ELSE w2

(***************************************************************************)
(* PresentationReceiver, core.js:979-1130                                  *)
(***************************************************************************)
\* The reaction of core.js:1100-1115.  It reads the variable "connection"
\* shared by all the handlers (core.js:1094), here rc.
\* The promises of receiver.getConnection(): pendingPromise (core.js:1077)
\* and pendingResolveFunction (core.js:1087) name a promise, 0 for null; a
\* promise is "queued" until its task has run, then "parked" or "resolved";
\* calls records for each call the promise returned and whether a
\* controller had been reported before.  snapshots holds the promises of
\* getConnections(), core.js:1036-1045.
NoPending ==
  [pendingPromise |-> 0, pendingResolveFunction |-> 0,
   promises |-> <<>>, calls |-> <<>>, snapshots |-> <<>>]

NewPromise == [pc |-> "queued", value |-> 0, resolved |-> 0]

Resolve(promise, c) ==
  [promise EXCEPT !.pc = "resolved",
                  !.value = IF promise.resolved = 0 THEN c ELSE @,
                  !.resolved = @ + 1]

\* A getConnection() that makes a promise for every call.
getConnectionAnew(pending, early) ==
  [pending EXCEPT
     !.promises = Append(@, NewPromise),
     !.pendingPromise = Len(pending.promises) + 1,
     !.calls = Append(@, [promise |-> Len(pending.promises) + 1,
                          early |-> early])]

\* receiver.getConnection(), core.js:1008-1025, the caller's part.
getConnection(pending, early) ==
  IF pending.pendingPromise # 0
  THEN [pending EXCEPT
          !.calls = Append(@, [promise |-> pending.pendingPromise,
                               early |-> early])]
  ELSE [pending EXCEPT
          !.promises = Append(@, NewPromise),
          !.pendingPromise = Len(pending.promises) + 1,
          !.calls = Append(@, [promise |-> Len(pending.promises) + 1,
                               early |-> early])]

\* The task queued by getConnection(), core.js:1014-1021, for promise p.
getConnectionTask(pending, p, presentations) ==
  IF Len(presentations) = 0
  THEN [pending EXCEPT !.promises[p].pc = "parked",
                       !.pendingResolveFunction = p]
  ELSE [pending EXCEPT
          !.promises[p] = Resolve(@, presentations[1].connection)]

\* receiver.getConnections(), core.js:1036-1045: the caller's part makes the
\* promise and queues the task.
getConnections(pending) ==
  [pending EXCEPT !.snapshots = Append(@, [pc |-> "queued", value |-> <<>>])]

\* The task of getConnections(), core.js:1039-1043: the connections of the
\* list, in the order of the list.
getConnectionsTask(pending, k, presentations) ==
  [pending EXCEPT
     !.snapshots[k] =
        [pc |-> "resolved",
         value |-> [i \in 1..Len(presentations) |->
                      presentations[i].connection]]]

\* The end of the reaction of core.js:1100-1115, with "connection" = rc.
ResolvePending(pending, rc) ==
  IF pending.pendingResolveFunction # 0
  THEN [pending EXCEPT
          !.promises[pending.pendingResolveFunction] = Resolve(@, rc),
          !.pendingResolveFunction = 0,
          !.pendingPromise = 0]
  ELSE pending

ReceiverThen(presentations, rc) ==
  Append(presentations, [url |-> "null", id |-> Len(presentations),
                         connection |-> rc])

\* lastOp records the last call or event on a connection: what it was, the
\* connection, what the caller got and the onstatechange notifications it
\* raised, in order.  PageOp stands for a step that concerns no connection.
Op(op, c, result, notes) ==
  [op |-> op, conn |-> c, result |-> result, notified |-> notes,
   choice |-> <<>>]

PageOp == Op("page", 0, "ok", <<>>)

\* The selection step of start call s, with what the prompt returned.
SelectOp(s, input) == [Op("select", s, "ok", <<>>) EXCEPT !.choice = input]

Commit(w) ==
  /\ conns' = w.conns
  /\ channels' = w.channels

InSeq(x, s) == \E i \in 1..Len(s) : s[i] = x

ConnIds == 1..Len(conns)

(***************************************************************************)
(* PresentationRequest, core.js:600-962                                    *)
(***************************************************************************)
\* A generator that hands out the same identifier every time.
SameIdentifier(presentations) == 0

\* getNewValidPresentationConnectionIdentifier, core.js:637-639
getNewValidPresentationConnectionIdentifier(presentations) ==
  Len(presentations)

\* A Display object: its class, and the discovery run and mechanism that
\* created it (getAvailableDisplays creates new objects on every call).
NewDisplay(kind, run, i) == [kind |-> kind, run |-> run, mech |-> i]

DisplayOf(mech) ==
  CASE mech = "window" -> "WindowDisplay"
    [] mech = "cast" -> "CastDisplay"
    [] mech = "dial" -> "DialDisplay"
    [] mech = "qrcode" -> "QRCodeDisplay"
    [] OTHER -> "PhysicalWebDisplay"

\* The options of a request are the set of the flags that are set.  The
\* constructor PresentationRequest(url), core.js:643, has no parameter for
\* them, and the fan-out of core.js:795-797 calls getAvailableDisplays()
\* with no argument: the mechanisms see no option, whatever the request
\* was given.
NoOptions == {}
RequestOptions == {NoOptions, {"isChannelOptional"}}
OptionsPassed(options) == NoOptions

\* mechanism.getAvailableDisplays(url, options): window.js:215-220,
\* cast.js:338-347, dial.js:340-372, qrcode.js:183-192,
\* physicalweb.js:206-220.  A list not yet resolved has
\* done = FALSE.
Promised(done, failed, displays) ==
  [done |-> done, failed |-> failed, displays |-> displays]

getAvailableDisplays(mech, options, run, i) ==
  CASE mech = "window" ->
         Promised(TRUE, FALSE, <<NewDisplay("WindowDisplay", run, i)>>)
    [] mech = "dial" ->
         \* dial.js:340-372: [] at once unless options.isChannelOptional;
         \* otherwise the list waits for the local proxy
         IF "isChannelOptional" \notin options
         THEN Promised(TRUE, FALSE, <<>>)
         ELSE Promised(FALSE, FALSE, <<>>)
    [] mech = "qrcode" ->
         \* qrcode.js:183-192; the QRCode library is part of the script
         Promised(TRUE, FALSE, <<NewDisplay("QRCodeDisplay", run, i)>>)
    [] mech = "cast" ->
         Promised(TRUE, FALSE,
                  IF castApiAvailable
                  THEN <<NewDisplay("CastDisplay", run, i)>> ELSE <<>>)
    [] OTHER ->
         Promised(pw.enabled, FALSE,
                  IF pw.enabled
                  THEN <<NewDisplay("PhysicalWebDisplay", run, i)>>
                  ELSE <<>>)

\* enable and disable of the Physical Web mechanism, physicalweb.js:173-190:
\* what the promise held in promiseResolve is resolved with when the status
\* probe has completed (up) or has failed or timed out (not up).
ProbeResult(up, run, i) ==
  Promised(TRUE, ~up,
           IF up THEN <<NewDisplay("PhysicalWebDisplay", run, i)>> ELSE <<>>)

\* An aggregation that takes the lists in the order of their resolution.
PromiseAllByCompletion(lists, order) ==
  [k \in 1..Len(order) |-> lists[order[k]].displays]

\* Promise.all, core.js:795: the values of the promises, by position,
\* whatever the order in which they were resolved.
PromiseAll(lists, order) == [k \in 1..Len(lists) |-> lists[k].displays]

\* lists.reduce(concat), core.js:799-801 (for a non-empty array)
RECURSIVE Flatten(_)
Flatten(lists) ==
  IF Len(lists) = 0 THEN <<>>
  ELSE Head(lists) \o Flatten(Tail(lists))

\* A candidate list that keeps the displays of the runs before.
NewListMerged(old, newDisplays) == old \o newDisplays

\* The candidate list after an aggregation, core.js:818.
NewList(old, newDisplays) == newDisplays

\* An aggregation that goes on as soon as one list has arrived.
AnyDone(lists) == \E k \in 1..Len(lists) : lists[k].done

\* The promise of Promise.all, core.js:795, is resolved once every promise
\* of the fan-out is.
AllDone(lists) == \A k \in 1..Len(lists) : lists[k].done

\* What window.prompt returns, core.js:844: the text typed, as a sequence of
\* characters, or null when the prompt is cancelled; parseInt converts its
\* argument to a string first, and null becomes the text "null".
Digits == <<"0", "1", "2", "3", "4", "5", "6", "7", "8", "9">>
IsDigit(ch) == \E d \in 1..10 : Digits[d] = ch
DigitValue(ch) == (CHOOSE d \in 1..10 : Digits[d] = ch) - 1
Cancelled == <<"n", "u", "l", "l">>
Inputs ==
  {Cancelled, <<>>, <<"a">>, <<"1", "a">>, <<"-", "1">>}
    \cup {<<Digits[d + 1]>> : d \in 0..(MaxMechs + 1)}

NaN == [nan |-> TRUE, value |-> 0]

RECURSIVE LeadingDigits(_)
LeadingDigits(text) ==
  IF text = <<>> \/ ~IsDigit(Head(text)) THEN <<>>
  ELSE <<Head(text)>> \o LeadingDigits(Tail(text))

RECURSIVE DecimalValue(_)
DecimalValue(digits) ==
  IF digits = <<>> THEN 0
  ELSE 10 * DecimalValue(SubSeq(digits, 1, Len(digits) - 1))
         + DigitValue(digits[Len(digits)])

RECURSIVE SkipSpaces(_)
SkipSpaces(text) ==
  IF text # <<>> /\ Head(text) = " " THEN SkipSpaces(Tail(text)) ELSE text

\* parseInt(choice, 10), core.js:847: leading blanks are skipped, a sign is
\* read, then the longest run of digits; what follows the digits is ignored
\* and the result is NaN when there is no digit.
parseInt(choice) ==
  LET text == SkipSpaces(choice)
      signed == text # <<>> /\ Head(text) \in {"-", "+"}
      digits == LeadingDigits(IF signed THEN Tail(text) ELSE text)
  IN IF digits = <<>> THEN NaN
     ELSE [nan |-> FALSE,
           value |-> IF signed /\ Head(text) = "-"
                     THEN 0 - DecimalValue(digits) ELSE DecimalValue(digits)]

\* requestUserToSelectPresentationDisplay, core.js:836-862: the position in
\* the list of list[parseInt(choice) - 1], 0 when there is no such display.
SelectedIndex(list, input) ==
  LET n == parseInt(input)
  IN IF ~n.nan /\ (n.value - 1) \in 0..(Len(list) - 1)
     THEN n.value ELSE 0

NewStart(url) ==
  [ url |-> url,
    options |-> NoOptions, \* what the request was constructed with
    pc |-> "queued",       \* queued | discovering | hung | navQueued |
                           \* navigating | done | failed
    lists |-> <<>>,        \* the promises of the fan-out
    order |-> <<>>,        \* positions, in the order of their resolution
    offered |-> <<>>,      \* the candidate list after the aggregation
    prompted |-> FALSE,
    display |-> NewDisplay("none", 0, 0),
    error |-> "none",
    connection |-> 0 ]

\* The loop over the availability objects, core.js:803-817: the value of
\* the object is compared with the new availability (some() with a test
\* that is always true: the list is not empty) and, when they differ, a
\* task is queued that will set the value and call onchange.  queued is the
\* number of start calls made so far: the task runs after their discovery
\* tasks (core.js:89-91).
monitorAvailability(objects, newDisplays, queued) ==
  [k \in 1..Len(objects) |->
     LET newAvailability == Len(newDisplays) > 0 IN
     IF objects[k].value # newAvailability
     THEN [objects[k] EXCEPT
             !.tasks = Append(@, [value |-> newAvailability,
                                  after |-> queued])]
     ELSE objects[k]]

\* The reactions that run once every promise of the fan-out of start call s
\* is resolved: core.js:797-820, then 673-678 of start, then the selection
\* 836-862 and the task queued by 877-879.
Aggregated(st, input) ==
  LET newDisplays == Flatten(PromiseAll(st.lists, st.order))
      list == NewList(listOfAvailablePresentationDisplays, newDisplays)
      idx == SelectedIndex(list, input)
  IN [ list |-> list,
       objects |-> monitorAvailability(setOfAvailabilityObjects, newDisplays,
                                       Len(starts)),
       start |->
         IF Len(list) = 0
         THEN [st EXCEPT !.pc = "failed", !.error = "NotFoundError",
                         !.offered = list]
         ELSE IF idx = 0
         THEN [st EXCEPT !.pc = "failed", !.error = "AbortError",
                         !.prompted = TRUE, !.offered = list]
         ELSE [st EXCEPT !.pc = "navQueued", !.prompted = TRUE,
                         !.offered = list, !.display = list[idx]] ]

\* request.start(), core.js:670-685: the part that runs in the caller's
\* task queues the discovery task (core.js:793).
StartWith(url, options) ==
  /\ phase = "loaded"
  /\ Len(starts) < MaxStarts
  /\ starts' = Append(starts, [NewStart(url) EXCEPT !.options = options])
  /\ lastOp' = PageOp
  /\ UNCHANGED <<phase, registeredMechanisms, castApiAvailable, conns,
                 channels, microtasks, receiverVars, setOfPresentations,
                 listOfAvailablePresentationDisplays, reconnects,
                 setOfAvailabilityObjects, pw, serverVars>>

Start(url) == StartWith(url, NoOptions)

HasPhysicalWeb == InSeq("physicalweb", registeredMechanisms)

\* The task of monitorAvailablePresentationDisplays, core.js:793-821, for
\* start call s.  With no mechanism registered, reduce() of an empty array
\* without initial value throws in the reaction: the promise of
\* core.js:792 is never settled.
\* The tasks of queueTask are timers of delay 0 (core.js:89-91): they run
\* in the order in which they were queued.
DiscoveryTask(s) ==
  /\ s \in 1..Len(starts)
  /\ starts[s].pc = "queued"
  /\ \A k \in 1..(s - 1) : starts[k].pc # "queued"
  /\ \A k \in 1..Len(setOfAvailabilityObjects) :
        \A t \in 1..Len(setOfAvailabilityObjects[k].tasks) :
           setOfAvailabilityObjects[k].tasks[t].after >= s
  /\ microtasks = {}
  /\ LET n == Len(registeredMechanisms)
         lists == [i \in 1..n |->
                     getAvailableDisplays(registeredMechanisms[i],
                                          OptionsPassed(starts[s].options),
                                          s, i)]
         order == SelectSeq([i \in 1..n |-> i], LAMBDA i : lists[i].done)
         st == [starts[s] EXCEPT !.lists = lists, !.order = order]
     IN /\ UNCHANGED serverVars
        /\ pw' = IF HasPhysicalWeb
                 THEN [pw EXCEPT !.promiseResolve = s,
                                 !.probe = @ \/ (~pw.enabled /\ ~pw.pending)]
                 ELSE pw
        /\ IF n = 0
           THEN /\ starts' = [starts EXCEPT ![s] = [st EXCEPT !.pc = "hung"]]
                /\ UNCHANGED listOfAvailablePresentationDisplays
                /\ UNCHANGED setOfAvailabilityObjects
                /\ lastOp' = PageOp
           ELSE IF AllDone(lists)
           THEN \E input \in Inputs :
                  LET r == Aggregated(st, input)
                  IN /\ starts' = [starts EXCEPT ![s] = r.start]
                     /\ listOfAvailablePresentationDisplays' = r.list
                     /\ setOfAvailabilityObjects' = r.objects
                     /\ lastOp' = IF r.start.prompted
                                  THEN SelectOp(s, input) ELSE PageOp
           ELSE /\ starts' = [starts EXCEPT ![s] = [st EXCEPT
                                                     !.pc = "discovering"]]
                /\ UNCHANGED listOfAvailablePresentationDisplays
                /\ UNCHANGED setOfAvailabilityObjects
                /\ lastOp' = PageOp
  /\ UNCHANGED <<phase, registeredMechanisms, castApiAvailable, conns,
                 channels, microtasks, receiverVars, setOfPresentations,
                 reconnects>>

PhysicalWebIndex ==
  CHOOSE k \in 1..Len(registeredMechanisms) :
     registeredMechanisms[k] = "physicalweb"

\* The discovery calls that wait for the status probe: every call made
\* while the mechanism is not enabled returns a promise that only enable or
\* disable resolve, and they resolve the last one only (promiseResolve is
\* overwritten by every call, physicalweb.js:208).
Waiting(st) == st.pc = "discovering"

\* The status probe of the Physical Web backend completes: enable (onload)
\* or disable (onerror, ontimeout), physicalweb.js:173-190.  The promise
\* whose resolve function is held is resolved; being the last one of its
\* fan-out, the reactions of the aggregation run.
PhysicalWebProbe(up) ==
  /\ pw.probe
  /\ microtasks = {}
  /\ UNCHANGED serverVars
  /\ pw' = [pw EXCEPT !.enabled = up, !.pending = FALSE, !.probe = FALSE,
                      !.promiseResolve = 0]
  /\ LET s == pw.promiseResolve
         i == PhysicalWebIndex
         probed == [k \in 1..Len(starts) |->
                      IF Waiting(starts[k]) /\ ~up
                      THEN [starts[k] EXCEPT !.lists[i].failed = TRUE]
                      ELSE starts[k]]
     IN IF s = 0
        THEN /\ starts' = probed
             /\ lastOp' = PageOp
             /\ UNCHANGED listOfAvailablePresentationDisplays
             /\ UNCHANGED setOfAvailabilityObjects
        ELSE LET st == [starts[s] EXCEPT
                          !.lists[i] = ProbeResult(up, s, i),
                          !.order = Append(@, i)]
             IN IF AllDone(st.lists)
                THEN \E input \in Inputs :
                       LET r == Aggregated(st, input)
                       IN /\ starts' = [probed EXCEPT ![s] = r.start]
                          /\ listOfAvailablePresentationDisplays' = r.list
                          /\ setOfAvailabilityObjects' = r.objects
                          /\ lastOp' = IF r.start.prompted
                                       THEN SelectOp(s, input) ELSE PageOp
                ELSE /\ starts' = [probed EXCEPT ![s] = st]
                     /\ lastOp' = PageOp
                     /\ UNCHANGED listOfAvailablePresentationDisplays
                     /\ UNCHANGED setOfAvailabilityObjects
  /\ UNCHANGED <<phase, registeredMechanisms, castApiAvailable, conns,
                 channels, microtasks, receiverVars, setOfPresentations,
                 reconnects>>

\* display.navigate(url) settles at once or later: WindowDisplay
\* window.js:115-136, CastDisplay cast.js:156-250, DialDisplay
\* dial.js:238-260, QRCodeDisplay qrcode.js:101-150, PhysicalWebDisplay
\* physicalweb.js:115-135.  "undefined" is the reject() without a reason of
\* cast.js:245.
NavigateNow(kind) ==
  CASE kind = "WindowDisplay" -> {"pending", "OperationError"}
    [] kind = "DialDisplay" -> {"pending"}
    [] kind = "QRCodeDisplay" -> {"pending"}
    [] kind = "CastDisplay" -> {"pending", "OperationError"}
    [] OTHER -> {"pending"}

NavigateLater(kind) ==
  CASE kind = "WindowDisplay" -> {"resolved"}
    [] kind = "DialDisplay" -> {"resolved", "OperationError"}
    [] kind = "QRCodeDisplay" -> {"resolved"}
    [] kind = "CastDisplay" -> {"resolved", "OperationError", "undefined"}
    [] OTHER -> {"resolved", "OperationError"}

\* The task of navigateDisplayToPresentationUrl, core.js:879-884.
NavigateTask(s) ==
  /\ s \in 1..Len(starts)
  /\ starts[s].pc = "navQueued"
  /\ microtasks = {}
  /\ \E o \in NavigateNow(starts[s].display.kind) :
       /\ starts' = [starts EXCEPT ![s] =
                       IF o = "pending"
                       THEN [@ EXCEPT !.pc = "navigating"]
                       ELSE [@ EXCEPT !.pc = "failed", !.error = o]]
       /\ lastOp' = PageOp
  /\ UNCHANGED <<phase, registeredMechanisms, castApiAvailable, conns,
                 channels, microtasks, receiverVars, setOfPresentations,
                 listOfAvailablePresentationDisplays, reconnects,
                 setOfAvailabilityObjects, pw, serverVars>>

\* createPresentationConnection, core.js:901-911, followed by
\* establishPresentationConnection, core.js:926-958, which queues the event
\* task and, unless the connection is connected, the channel task.
createPresentationConnection(url, display, presentations) ==
  LET id == getNewValidPresentationConnectionIdentifier(presentations)
  IN [NewConnection(display.kind) EXCEPT !.id = id, !.state = "closed"]

\* An establishment that queues the channel task whatever the state.
establishAlways(cn) ==
  [cn EXCEPT !.eventTasks = @ + 1, !.estTasks = @ + 1]

\* establishPresentationConnection, core.js:926-958: the event task is
\* queued, then, unless the connection is connected (core.js:938-940), the
\* task that creates the channel.
establishPresentationConnection(cn) ==
  [cn EXCEPT !.eventTasks = @ + 1,
             !.estTasks = IF cn.state = "connected" THEN @ ELSE @ + 1]

\* A reaction that runs whether the promise was resolved or rejected.
ThenAlways(o, list, x) == Append(list, x)

\* promise.then(onFulfilled), core.js:680: the reaction that creates the
\* connection and registers it runs only when the promise of navigate()
\* was resolved; a rejection goes to the caller of start().
Then(o, list, x) == IF o = "resolved" THEN Append(list, x) ELSE list

\* The promise of display.navigate(url) settles.  When it is resolved the
\* last reaction of start, core.js:680-684, creates the connection.
NavigateSettles(s) ==
  /\ s \in 1..Len(starts)
  /\ starts[s].pc = "navigating"
  /\ microtasks = {}
  /\ \E o \in NavigateLater(starts[s].display.kind) :
       LET cn == createPresentationConnection(
                    starts[s].url, starts[s].display, setOfPresentations)
           c == Len(conns) + 1
       IN /\ conns' = Then(o, conns, establishPresentationConnection(cn))
          /\ setOfPresentations' =
               Then(o, setOfPresentations,
                    [url |-> starts[s].url, id |-> cn.id, connection |-> c])
          /\ starts' = IF o = "resolved"
                       THEN [starts EXCEPT ![s].pc = "done",
                                           ![s].connection = c]
                       ELSE [starts EXCEPT ![s].pc = "failed",
                                           ![s].error = o]
          /\ lastOp' = PageOp
  /\ UNCHANGED <<phase, registeredMechanisms, castApiAvailable, channels,
                 microtasks, receiverVars,
                 listOfAvailablePresentationDisplays, reconnects,
                 setOfAvailabilityObjects, pw, serverVars>>

\* An availability object, core.js:547-561, with the url it was asked for
\* (core.js:615): its value, the tasks queued for it by core.js:809-814 and
\* the values its onchange handler was called with.
NewAvailability(url) ==
  [availabilityUrl |-> url, value |-> FALSE, tasks |-> <<>>,
   notified |-> <<>>]

\* A getAvailability() that registers a watcher and resolves with it.
getAvailabilityWatching(url, objects) ==
  [result |-> "resolved",
   objects |-> Append(objects, NewAvailability(url))]

\* request.getAvailability(), core.js:744-749: the promise is rejected in
\* its executor and nothing is added to setOfAvailabilityObjects.
getAvailability(url, objects) ==
  [result |-> "NotSupportedError", objects |-> objects]

GetAvailability(url) ==
  /\ phase = "loaded"
  /\ LET r == getAvailability(url, setOfAvailabilityObjects)
     IN /\ setOfAvailabilityObjects' = r.objects
        /\ lastOp' = Op("getAvailability", 0, r.result, <<>>)
  /\ UNCHANGED <<phase, registeredMechanisms, castApiAvailable, conns,
                 channels, microtasks, receiverVars, setOfPresentations,
                 listOfAvailablePresentationDisplays, starts, reconnects,
                 pw, serverVars>>

\* The task queued by core.js:809-814 for availability object k sets the
\* value and calls onchange.  Tasks run in the order in which they were
\* queued: after the discovery tasks of the start calls made before.
AvailabilityTask(k) ==
  /\ k \in 1..Len(setOfAvailabilityObjects)
  /\ microtasks = {}
  /\ LET a == setOfAvailabilityObjects[k] IN
     /\ Len(a.tasks) > 0
     /\ \A s \in 1..Len(starts) :
           s <= Head(a.tasks).after => starts[s].pc # "queued"
     /\ setOfAvailabilityObjects' =
          [setOfAvailabilityObjects EXCEPT
             ![k] = [a EXCEPT !.value = Head(a.tasks).value,
                              !.notified = Append(@, Head(a.tasks).value),
                              !.tasks = Tail(@)]]
  /\ lastOp' = PageOp
  /\ UNCHANGED <<phase, registeredMechanisms, castApiAvailable, conns,
                 channels, microtasks, receiverVars, setOfPresentations,
                 listOfAvailablePresentationDisplays, starts, reconnects,
                 pw, serverVars>>

\* request.reconnect(presentationId), core.js:708-730: the caller's part
\* queues the lookup task.
Reconnect(url, id) ==
  /\ phase = "loaded"
  /\ Len(reconnects) < MaxReconnects
  /\ reconnects' = Append(reconnects,
                      [url |-> url, id |-> id, pc |-> "queued",
                       connection |-> 0])
  /\ lastOp' = Op("reconnect", 0, "queued", <<>>)
  /\ UNCHANGED <<phase, registeredMechanisms, castApiAvailable, conns,
                 channels, microtasks, receiverVars, setOfPresentations,
                 listOfAvailablePresentationDisplays, starts,
                 setOfAvailabilityObjects, pw, serverVars>>

\* A lookup by identifier alone.
LookupById(presentations, url, id) ==
  LET hits == {k \in 1..Len(presentations) : presentations[k].id = id}
  IN IF hits = {} THEN 0
     ELSE presentations[CHOOSE k \in hits : \A j \in hits : k <= j].connection

\* The lookup of core.js:711-720: the first presentation with that url and
\* id, 0 when there is none.
Lookup(presentations, url, id) ==
  LET hits == {k \in 1..Len(presentations) :
                 presentations[k].url = url /\ presentations[k].id = id}
  IN IF hits = {} THEN 0
     ELSE presentations[CHOOSE k \in hits : \A j \in hits : k <= j].connection

\* The task of reconnect, core.js:710-728; tasks run in the order in which
\* they were queued.
ReconnectTask(r) ==
  /\ r \in 1..Len(reconnects)
  /\ reconnects[r].pc = "queued"
  /\ \A k \in 1..(r - 1) : reconnects[k].pc # "queued"
  /\ microtasks = {}
  /\ LET c == Lookup(setOfPresentations, reconnects[r].url, reconnects[r].id)
     IN IF c # 0
        THEN /\ reconnects' = [reconnects EXCEPT ![r].pc = "done",
                                                 ![r].connection = c]
             /\ conns' = [conns EXCEPT
                            ![c] = establishPresentationConnection(@)]
             /\ lastOp' = Op("reconnect", c, "resolved", <<>>)
        ELSE /\ reconnects' = [reconnects EXCEPT ![r].pc = "NotFoundError"]
             /\ lastOp' = Op("reconnect", 0, "NotFoundError", <<>>)
             /\ UNCHANGED conns
  /\ UNCHANGED <<phase, registeredMechanisms, castApiAvailable, channels,
                 microtasks, receiverVars, setOfPresentations,
                 listOfAvailablePresentationDisplays, starts,
                 setOfAvailabilityObjects, pw, serverVars>>

\* The handler properties the owner of a request sets: the one the
\* interface declares, core.js:646-653.
RequestHandlers == {"onconnectionavailable"}

\* The event task of core.js:929-936 calls the function found in the
\* property "onconnection" of the request, if there is one.
FireConnectionEvent(handlers) ==
  IF "onconnection" \in handlers THEN "delivered" ELSE "no handler"

\* The task queued by core.js:929-936 fires the event at the request.
ConnectionEventTask(c) ==
  /\ c \in ConnIds
  /\ conns[c].eventTasks > 0
  /\ microtasks = {}
  /\ conns' = [conns EXCEPT ![c].eventTasks = @ - 1]
  /\ lastOp' = Op("connectionevent", c, FireConnectionEvent(RequestHandlers),
                  <<>>)
  /\ UNCHANGED <<phase, registeredMechanisms, castApiAvailable, channels,
                 microtasks, receiverVars, requestVars, serverVars>>

(***************************************************************************)
(* Channel creation and the events of the remote peers.                    *)
(***************************************************************************)
\* The reactions that follow the resolution of a channel creation of
\* connection c in world w: core.js:446-472, then core.js:1100-1115 when the
\* creation was started by the receiver's handler (that reaction reads the
\* shared variable "connection").
Resolved(w, c, rc, op) ==
  LET w1 == ThenDataChannel(w, c)
  IN IF w.conns[c].rcvThen
     THEN LET w2 == [w1 EXCEPT !.conns[c].rcvThen = FALSE,
                       !.conns[rc].id = Len(setOfIncomingPresentations)]
          IN /\ Commit(w2)
             /\ setOfIncomingPresentations' =
                  ReceiverThen(setOfIncomingPresentations, rc)
             /\ rcvNotified' = rcvNotified + 1
             /\ rcvPending' = ResolvePending(rcvPending, rc)
             /\ lastOp' = Op(op, c, "resolved", w2.notes)
     ELSE /\ Commit(w1)
          /\ lastOp' = Op(op, c, "resolved", w1.notes)
          /\ UNCHANGED <<setOfIncomingPresentations, rcvNotified, rcvPending>>

\* The task queued by core.js:942-957 calls connection.createDataChannel().
\* A promise the peer resolves at once has its reaction run at the end of
\* the task.
EstablishTask(c) ==
  /\ c \in ConnIds
  /\ conns[c].estTasks > 0
  /\ microtasks = {}
  /\ CanCreate(World, c)
  /\ LET w0 == [World EXCEPT !.conns[c].estTasks = @ - 1]
         w == CreateDataChannel(w0, c)
         res == CreateDataChannelResult(conns[c])
     IN IF res = "created" /\ w.conns[c].inflight = "sync"
        THEN Resolved(w, c, rcvConnection, "establish")
        ELSE /\ Commit(w)
             /\ lastOp' = Op("establish", c, res, w.notes)
             /\ UNCHANGED <<setOfIncomingPresentations, rcvNotified, rcvPending>>
  /\ UNCHANGED <<phase, registeredMechanisms, castApiAvailable, microtasks,
                 monitorQueued, rcvConnection, reported, requestVars, serverVars>>

\* 'channelready' arrives from the receiving window: readyMessageListener,
\* window.js:143-152, installs messageListener and resolves the promise.
ChannelReadyOn(w, c) ==
  /\ microtasks = {}
  /\ c \in ConnIds
  /\ conns[c].peer = "WindowDisplay"
  /\ conns[c].inflight = "requested"
  /\ Resolved([w EXCEPT !.conns[c].listeners =
                           Append(@, conns[c].creating)],
              c, rcvConnection, "channelready")
  /\ UNCHANGED <<phase, registeredMechanisms, castApiAvailable, microtasks,
                 monitorQueued, rcvConnection, reported, requestVars, serverVars>>

ChannelReady(c) == ChannelReadyOn(World, c)

\* messageListener for 'receivershutdown', window.js:154-162, run for every
\* channel of the display that has the listener installed, oldest first.
RECURSIVE ShutdownListeners(_, _, _)
ShutdownListeners(w, c, chs) ==
  IF Len(chs) = 0 THEN w
  ELSE ShutdownListeners(
         OnStateChange([w EXCEPT !.channels[Head(chs)] = "terminated"], c),
         c, Tail(chs))

\* The user closes the receiving window.
ReceivingWindowClosed(c) ==
  /\ microtasks = {}
  /\ c \in ConnIds
  /\ conns[c].peer = "WindowDisplay"
  /\ conns[c].peerOpen
  /\ Commit(PeerTerminate(World, c))
  /\ lastOp' = Op("windowclosed", c, "ok", <<>>)
  /\ UNCHANGED <<phase, registeredMechanisms, castApiAvailable, microtasks,
                 receiverVars, requestVars, serverVars>>

\* 'receivershutdown' arrives (posted by window.js:251-258 when the
\* receiving window unloads).  A 'channel' request the window has not
\* answered before will never be answered.
ReceiverShutdown(c) ==
  /\ microtasks = {}
  /\ c \in ConnIds
  /\ conns[c].shutdownPending
  /\ LET w0 == [World EXCEPT
                  !.conns[c].shutdownPending = FALSE,
                  !.conns[c].inflight =
                     IF @ = "requested" THEN "never" ELSE @]
         w == ShutdownListeners(w0, c, conns[c].listeners)
     IN /\ Commit(w)
        /\ lastOp' = Op("receivershutdown", c, "ok", w.notes)
  /\ UNCHANGED <<phase, registeredMechanisms, castApiAvailable, microtasks,
                 receiverVars, requestVars, serverVars>>

\* updateListener of a Cast session, cast.js:263-274: the channel state is
\* set (castSession never equals SessionStatus.CONNECTED, hence 'closed'),
\* then the log call reads the undeclared isAlive and throws, before
\* channel.onstatechange is called and before the listeners are removed.
RECURSIVE UpdateListeners(_, _)
UpdateListeners(w, chs) ==
  IF Len(chs) = 0 THEN w
  ELSE UpdateListeners([w EXCEPT !.channels[Head(chs)] = "closed"], Tail(chs))

CastSessionUpdate(c) ==
  /\ microtasks = {}
  /\ c \in ConnIds
  /\ conns[c].peer = "CastDisplay"
  /\ \E k \in 1..Len(conns[c].listeners) :
        channels[conns[c].listeners[k]] # "closed"
  /\ LET w == UpdateListeners(World, conns[c].listeners)
     IN /\ Commit(w)
        /\ lastOp' = Op("castupdate", c, "ReferenceError", w.notes)
  /\ UNCHANGED <<phase, registeredMechanisms, castApiAvailable, microtasks,
                 receiverVars, requestVars, serverVars>>

\* __onGCastApiAvailable, cast.js:52-61: the Cast sender library is loaded.
GCastApiAvailable ==
  /\ InSeq("cast", registeredMechanisms)
  /\ ~castApiAvailable
  /\ microtasks = {}
  /\ castApiAvailable' = TRUE
  /\ lastOp' = PageOp
  /\ UNCHANGED <<phase, registeredMechanisms, conns, channels, microtasks,
                 receiverVars, requestVars, serverVars>>

\* The DIAL proxy server before the DIAL client is ready.
InitServer ==
  /\ dialDevices = <<>>
  /\ dialSearch = [present |-> {}, pending |-> {}, old |-> {},
                   late |-> FALSE]

(***************************************************************************)
(* Initial state: core.js has run, no mechanism is registered yet.         *)
(***************************************************************************)
Init ==
  /\ phase = "loading"
  /\ registeredMechanisms = <<>>
  /\ castApiAvailable = FALSE
  /\ conns = <<>>
  /\ channels = <<>>
  /\ microtasks = {}
  /\ lastOp = PageOp
  /\ monitorQueued = FALSE
  /\ rcvConnection = 0
  /\ setOfIncomingPresentations = <<>>
  /\ rcvNotified = 0
  /\ rcvPending = NoPending
  /\ reported = <<>>
  /\ setOfPresentations = <<>>
  /\ listOfAvailablePresentationDisplays = <<>>
  /\ starts = <<>>
  /\ reconnects = <<>>
  /\ setOfAvailabilityObjects = <<>>
  /\ pw = [enabled |-> FALSE, pending |-> FALSE, promiseResolve |-> 0,
           probe |-> FALSE]
  /\ InitServer

\* registerPresentationMechanism, core.js:125-127, called at the end of a
\* mechanism's script.  The Physical Web mechanism sends its first status
\* probe when it is constructed (physicalweb.js:191-201).
RegisterPresentationMechanism(mech) ==
  /\ phase = "loading"
  /\ Len(registeredMechanisms) < MaxMechs
  /\ ~InSeq(mech, registeredMechanisms)
  /\ registeredMechanisms' = Append(registeredMechanisms, mech)
  /\ reported' = Append(reported, 0)
  /\ UNCHANGED serverVars
  /\ pw' = IF mech = "physicalweb"
           THEN [pw EXCEPT !.pending = TRUE, !.probe = TRUE] ELSE pw
  /\ lastOp' = PageOp
  /\ UNCHANGED <<phase, castApiAvailable, conns, channels, microtasks,
                 monitorQueued, rcvConnection, setOfIncomingPresentations,
                 rcvNotified, rcvPending, setOfPresentations,
                 listOfAvailablePresentationDisplays, starts, reconnects,
                 setOfAvailabilityObjects>>

\* The window's load event, core.js:1126-1129, queues the monitoring task.
WindowLoad ==
  /\ phase = "loading"
  /\ phase' = "loaded"
  /\ monitorQueued' = TRUE
  /\ lastOp' = PageOp
  /\ UNCHANGED <<registeredMechanisms, castApiAvailable, conns, channels,
                 microtasks, rcvConnection, setOfIncomingPresentations,
                 rcvNotified, rcvPending, reported, requestVars, serverVars>>

\* mechanism.monitorIncomingControllers(), as called by core.js:1096:
\* window.js:222-247 and cast.js:355-378 install listeners and report
\* later ("none" during the call), the base class core.js:349-352 does
\* nothing.  dial.js:374-391 decides during the call: when the page was
\* launched as a DIAL application it creates the controller and hands it to
\* onincomingcontroller if that property is set; otherwise the controller
\* is dropped.
monitorIncomingControllers(mech, dialApp, handler) ==
  IF mech = "dial" /\ dialApp
  THEN IF handler THEN "delivered" ELSE "dropped"
  ELSE "none"

\* Was the page launched as a DIAL application ('__dial__' in the query
\* string, dial.js:381)?  Only the DIAL mechanism looks at it.
DialApp ==
  IF InSeq("dial", registeredMechanisms) THEN BOOLEAN ELSE {FALSE}

\* The task of monitorIncomingPresentationConnections, core.js:1093-1118:
\* for every mechanism, monitorIncomingControllers() is called (core.js:1096)
\* and then the handler is installed (core.js:1097): no handler is set
\* during the call.  reported records 2 for a controller detected and
\* dropped.
MonitorTask ==
  /\ monitorQueued
  /\ microtasks = {}
  /\ monitorQueued' = FALSE
  /\ phase' = "monitoring"
  /\ \E dialApp \in DialApp :
       reported' =
         [i \in 1..Len(reported) |->
            IF monitorIncomingControllers(registeredMechanisms[i], dialApp,
                                          FALSE) = "dropped"
            THEN 2 ELSE reported[i]]
  /\ lastOp' = PageOp
  /\ UNCHANGED <<registeredMechanisms, castApiAvailable, conns, channels,
                 microtasks, rcvConnection, setOfIncomingPresentations,
                 rcvNotified, rcvPending, requestVars, serverVars>>

\* Connections the application holds a reference to.
Exposed(c) ==
  \/ conns[c].peer \in DisplayKinds
  \/ \E i \in 1..Len(setOfIncomingPresentations) :
        setOfIncomingPresentations[i].connection = c

\* mechanism.onincomingcontroller, core.js:1097-1116: mechanism i reports a
\* controller (window.js:229-246, cast.js:372-377).
IncomingController(i) ==
  /\ phase = "monitoring"
  /\ microtasks = {}
  /\ i \in 1..Len(registeredMechanisms)
  /\ ReportsControllers(registeredMechanisms[i])
  /\ registeredMechanisms[i] = "cast" => reported[i] = 0
  /\ Len(conns) < MaxControllers
  /\ Len(channels) < MaxChans
  /\ LET c == Len(conns) + 1
         cn == [NewConnection(ControllerOf(registeredMechanisms[i]))
                  EXCEPT !.rcvThen = TRUE]
         w0 == [World EXCEPT !.conns = Append(@, cn)]
         w1 == CreateDataChannel(w0, c)
     IN /\ reported' = [reported EXCEPT ![i] = 1]
        /\ rcvConnection' = c
        /\ IF w1.conns[c].inflight = "sync"
           THEN Resolved(w1, c, c, "incoming")
           ELSE /\ Commit(w1)
                /\ lastOp' = Op("incoming", c, "pending", w1.notes)
                /\ UNCHANGED <<setOfIncomingPresentations, rcvNotified, rcvPending>>
  /\ UNCHANGED <<phase, registeredMechanisms, castApiAvailable, microtasks,
                 monitorQueued, requestVars, serverVars>>

\* An initMessageListener that answers without marking its channel.
InitMessageUnmarked(w, c) == w

\* initMessageListener marks its channel connected, window.js:55-58.
InitMessage(w, c) ==
  [w EXCEPT !.channels[w.conns[c].creating] = "connected"]

\* The controlling window posts 'channel': initMessageListener,
\* window.js:54-64, marks the channel connected and resolves the promise.
ControllerChannelMessageOn(w, c) ==
  /\ microtasks = {}
  /\ c \in ConnIds
  /\ conns[c].peer = "WindowRemoteController"
  /\ conns[c].inflight = "requested"
  /\ Resolved(InitMessage(w, c), c, rcvConnection, "channelmessage")
  /\ UNCHANGED <<phase, registeredMechanisms, castApiAvailable, microtasks,
                 monitorQueued, rcvConnection, reported, requestVars, serverVars>>

ControllerChannelMessage(c) == ControllerChannelMessageOn(World, c)

\* The application calls receiver.getConnection().
GetConnection ==
  /\ Len(rcvPending.calls) + Len(rcvPending.snapshots) < MaxGets
  /\ microtasks = {}
  /\ rcvPending' = getConnection(rcvPending, Len(conns) = 0)
  /\ lastOp' = PageOp
  /\ UNCHANGED <<phase, registeredMechanisms, castApiAvailable, conns,
                 channels, microtasks, monitorQueued, rcvConnection,
                 setOfIncomingPresentations, rcvNotified, reported,
                 requestVars, serverVars>>

\* The task of a call of getConnection() runs; tasks run in the order in
\* which they were queued.
GetConnectionTask(p) ==
  /\ p \in 1..Len(rcvPending.promises)
  /\ rcvPending.promises[p].pc = "queued"
  /\ \A q \in 1..(p - 1) : rcvPending.promises[q].pc # "queued"
  /\ microtasks = {}
  /\ rcvPending' = getConnectionTask(rcvPending, p,
                                     setOfIncomingPresentations)
  /\ lastOp' = PageOp
  /\ UNCHANGED <<phase, registeredMechanisms, castApiAvailable, conns,
                 channels, microtasks, monitorQueued, rcvConnection,
                 setOfIncomingPresentations, rcvNotified, reported,
                 requestVars, serverVars>>

\* The application calls receiver.getConnections().
GetConnections ==
  /\ Len(rcvPending.calls) + Len(rcvPending.snapshots) < MaxGets
  /\ microtasks = {}
  /\ rcvPending' = getConnections(rcvPending)
  /\ lastOp' = PageOp
  /\ UNCHANGED <<phase, registeredMechanisms, castApiAvailable, conns,
                 channels, microtasks, monitorQueued, rcvConnection,
                 setOfIncomingPresentations, rcvNotified, reported,
                 requestVars, serverVars>>

\* The task of a call of getConnections() runs.
GetConnectionsTask(k) ==
  /\ k \in 1..Len(rcvPending.snapshots)
  /\ rcvPending.snapshots[k].pc = "queued"
  /\ \A j \in 1..(k - 1) : rcvPending.snapshots[j].pc # "queued"
  /\ microtasks = {}
  /\ rcvPending' = getConnectionsTask(rcvPending, k,
                                      setOfIncomingPresentations)
  /\ lastOp' = PageOp
  /\ UNCHANGED <<phase, registeredMechanisms, castApiAvailable, conns,
                 channels, microtasks, monitorQueued, rcvConnection,
                 setOfIncomingPresentations, rcvNotified, reported,
                 requestVars, serverVars>>

(***************************************************************************)
(* Calls of the application on a connection.  They may follow each other   *)
(* within one task, before the promise reactions run.                      *)
(***************************************************************************)
AppCreateDataChannel(c) ==
  /\ c \in ConnIds
  /\ Exposed(c)
  /\ CanCreate(World, c)
  /\ LET w == CreateDataChannel(World, c)
     IN /\ Commit(w)
        /\ microtasks' = IF w.conns[c].inflight = "sync"
                         THEN microtasks \cup {c} ELSE microtasks
        /\ lastOp' = Op("createDataChannel", c,
                        CreateDataChannelResult(conns[c]), w.notes)
  /\ UNCHANGED <<phase, registeredMechanisms, castApiAvailable,
                 receiverVars, requestVars, serverVars>>

\* The promise reactions run when the current task ends.
Microtasks ==
  /\ microtasks # {}
  /\ \E c \in microtasks :
       /\ Resolved(World, c, rcvConnection, "microtask")
       /\ microtasks' = microtasks \ {c}
  /\ UNCHANGED <<phase, registeredMechanisms, castApiAvailable,
                 monitorQueued, rcvConnection, reported, requestVars, serverVars>>

AppSend(c) ==
  /\ c \in ConnIds
  /\ Exposed(c)
  /\ lastOp' = Op("send", c, SendResult(World, c), <<>>)
  /\ UNCHANGED <<phase, registeredMechanisms, castApiAvailable, conns,
                 channels, microtasks, receiverVars, requestVars, serverVars>>

AppClose(c) ==
  /\ c \in ConnIds
  /\ Exposed(c)
  /\ LET w == ConnectionClose(World, c)
     IN /\ Commit(w)
        /\ lastOp' = Op("close", c, "ok", w.notes)
  /\ UNCHANGED <<phase, registeredMechanisms, castApiAvailable, microtasks,
                 receiverVars, requestVars, serverVars>>

AppTerminate(c) ==
  /\ c \in ConnIds
  /\ Exposed(c)
  /\ LET w == ConnectionTerminate(World, c)
     IN /\ Commit(w)
        /\ lastOp' = Op("terminate", c, TerminateResult(conns[c]), w.notes)
  /\ UNCHANGED <<phase, registeredMechanisms, castApiAvailable, microtasks,
                 receiverVars, requestVars, serverVars>>

(***************************************************************************)
(* The controlling page: start(), up to the creation of the connection    *)
(* and the queuing of its tasks (what happens to a connection from there   *)
(* on is SpecConnection).  The monitoring task queued at load does nothing *)
(* on a controlling page (window.js:224-227, cast.js:357-361) and is left  *)
(* out.                                                                    *)
(***************************************************************************)
ControllingMechs == {"window", "cast", "physicalweb"}
StartUrls == {"u1"}

Next ==
  \/ \E mech \in ControllingMechs : RegisterPresentationMechanism(mech)
  \/ WindowLoad
  \/ GCastApiAvailable
  \/ \E url \in StartUrls : Start(url)
  \/ \E s \in 1..MaxStarts : DiscoveryTask(s)
  \/ \E up \in BOOLEAN : PhysicalWebProbe(up)
  \/ \E s \in 1..MaxStarts : NavigateTask(s)
  \/ \E s \in 1..MaxStarts : NavigateSettles(s)

Spec == Init /\ [][Next]_vars

(***************************************************************************)
(* One connection of the controlling page, from the moment the last        *)
(* reaction of start() (core.js:680-684) has created it for the display    *)
(* the user selected: the calls of the application, reconnect(), and the   *)
(* events of the remote peer.                                              *)
(***************************************************************************)
(***************************************************************************)
(* The controlling page with the mechanisms that cannot set up a channel   *)
(* by themselves, and requests constructed with and without the option     *)
(* isChannelOptional.                                                      *)
(***************************************************************************)
NextOptional ==
  \/ \E mech \in ChannelLessMechs : RegisterPresentationMechanism(mech)
  \/ WindowLoad
  \/ \E url \in StartUrls, options \in RequestOptions :
        StartWith(url, options)
  \/ \E s \in 1..MaxStarts : DiscoveryTask(s)
  \/ \E up \in BOOLEAN : PhysicalWebProbe(up)
  \/ \E s \in 1..MaxStarts : NavigateTask(s)
  \/ \E s \in 1..MaxStarts : NavigateSettles(s)
  \/ \E url \in StartUrls : GetAvailability(url)

SpecOptional == Init /\ [][NextOptional]_vars

MechOf(kind) ==
  CASE kind = "WindowDisplay" -> "window"
    [] kind = "CastDisplay" -> "cast"
    [] OTHER -> "physicalweb"

InitWith(kind, namespaces) ==
    LET display == NewDisplay(kind, 1, 1)
        cn == [createPresentationConnection("u1", display, <<>>)
                 EXCEPT !.namespaces = namespaces]
    IN /\ phase = "loaded"
       /\ registeredMechanisms = <<MechOf(kind)>>
       /\ castApiAvailable = (kind = "CastDisplay")
       /\ conns = <<establishPresentationConnection(cn)>>
       /\ channels = <<>>
       /\ microtasks = {}
       /\ lastOp = PageOp
       /\ monitorQueued = TRUE
       /\ rcvConnection = 0
       /\ setOfIncomingPresentations = <<>>
       /\ rcvNotified = 0
       /\ rcvPending = NoPending
       /\ reported = <<0>>
       /\ setOfPresentations =
            <<[url |-> "u1", id |-> cn.id, connection |-> 1]>>
       /\ listOfAvailablePresentationDisplays = <<display>>
       /\ starts = <<[NewStart("u1") EXCEPT
                        !.pc = "done",
                        !.lists = <<Promised(TRUE, FALSE, <<display>>)>>,
                        !.order = <<1>>,
                        !.offered = <<display>>,
                        !.prompted = TRUE,
                        !.display = display,
                        !.connection = 1]>>
       /\ reconnects = <<>>
       /\ setOfAvailabilityObjects = <<>>
       /\ pw = [enabled |-> (kind = "PhysicalWebDisplay"), pending |-> FALSE,
                promiseResolve |-> 0, probe |-> FALSE]
       /\ InitServer

\* The session of a CastDisplay has a namespace.
InitConnection == \E kind \in DisplayKinds : InitWith(kind, TRUE)

NextConnection ==
  \/ \E url \in Urls, id \in 0..1 : Reconnect(url, id)
  \/ \E r \in 1..MaxReconnects : ReconnectTask(r)
  \/ \E c \in ConnIds : ConnectionEventTask(c)
  \/ \E c \in ConnIds : EstablishTask(c)
  \/ \E c \in ConnIds : ChannelReady(c)
  \/ \E c \in ConnIds : ReceivingWindowClosed(c)
  \/ \E c \in ConnIds : ReceiverShutdown(c)
  \/ \E c \in ConnIds : CastSessionUpdate(c)
  \/ \E c \in ConnIds : AppCreateDataChannel(c)
  \/ \E c \in ConnIds : AppSend(c)
  \/ \E c \in ConnIds : AppClose(c)
  \/ \E c \in ConnIds : AppTerminate(c)
  \/ Microtasks

SpecConnection == InitConnection /\ [][NextConnection]_vars

\* One connection of the controlling page, the Cast sessions without a
\* namespace included: the creation of their channel is rejected.
InitRejecting ==
  \E kind \in DisplayKinds :
     \E namespaces \in IF kind = "CastDisplay" THEN BOOLEAN ELSE {TRUE} :
        InitWith(kind, namespaces)

SpecRejecting == InitRejecting /\ [][NextConnection]_vars

(***************************************************************************)
(* The aggregation and the availability objects.  No code of core.js adds  *)
(* an object to setOfAvailabilityObjects (getAvailability() is rejected);  *)
(* the loop of core.js:803-817 is run here on a set that holds one object, *)
(* as a getAvailability() that registers its object would leave it.        *)
(***************************************************************************)
InitAvailability ==
  /\ phase = "loading"
  /\ registeredMechanisms = <<>>
  /\ castApiAvailable = FALSE
  /\ conns = <<>>
  /\ channels = <<>>
  /\ microtasks = {}
  /\ lastOp = PageOp
  /\ monitorQueued = FALSE
  /\ rcvConnection = 0
  /\ setOfIncomingPresentations = <<>>
  /\ rcvNotified = 0
  /\ rcvPending = NoPending
  /\ reported = <<>>
  /\ setOfPresentations = <<>>
  /\ listOfAvailablePresentationDisplays = <<>>
  /\ starts = <<>>
  /\ reconnects = <<>>
  /\ setOfAvailabilityObjects = <<NewAvailability("u1")>>
  /\ pw = [enabled |-> FALSE, pending |-> FALSE, promiseResolve |-> 0,
           probe |-> FALSE]
  /\ InitServer

NextAvailability ==
  \/ \E mech \in ControllingMechs : RegisterPresentationMechanism(mech)
  \/ WindowLoad
  \/ GCastApiAvailable
  \/ \E url \in StartUrls : Start(url)
  \/ \E s \in 1..MaxStarts : DiscoveryTask(s)
  \/ \E up \in BOOLEAN : PhysicalWebProbe(up)
  \/ \E k \in 1..Len(setOfAvailabilityObjects) : AvailabilityTask(k)

SpecAvailability == InitAvailability /\ [][NextAvailability]_vars

(***************************************************************************)
(* The receiving page.                                                     *)
(***************************************************************************)
ReceivingMechs == {"window", "cast", "physicalweb"}

NextReceiver ==
  \/ \E mech \in ReceivingMechs : RegisterPresentationMechanism(mech)
  \/ WindowLoad
  \/ MonitorTask
  \/ \E i \in 1..MaxMechs : IncomingController(i)
  \/ \E c \in ConnIds : ControllerChannelMessage(c)
  \/ \E c \in ConnIds : AppCreateDataChannel(c)
  \/ \E c \in ConnIds : AppSend(c)
  \/ \E c \in ConnIds : AppClose(c)
  \/ \E c \in ConnIds : AppTerminate(c)
  \/ Microtasks

SpecReceiver == Init /\ [][NextReceiver]_vars

(***************************************************************************)
(* The receiving page and the calls of receiver.getConnection(): the       *)
(* controllers reported, the establishment of their channels and the       *)
(* promises of getConnection().  The calls of the application on the       *)
(* connections, which touch neither the list of incoming presentations nor *)
(* the promises, are left to SpecReceiver.                                 *)
(***************************************************************************)
NextIncoming ==
  \/ \E mech \in ReceivingMechs : RegisterPresentationMechanism(mech)
  \/ WindowLoad
  \/ MonitorTask
  \/ \E i \in 1..MaxMechs : IncomingController(i)
  \/ \E c \in ConnIds : ControllerChannelMessage(c)
  \/ GetConnection
  \/ \E p \in 1..MaxGets : GetConnectionTask(p)
  \/ GetConnections
  \/ \E k \in 1..MaxGets : GetConnectionsTask(k)

SpecIncoming == Init /\ [][NextIncoming]_vars

(***************************************************************************)
(* The receiving page with the mechanisms that detect controllers, DIAL    *)
(* included.  The tasks the page has queued are run (queueTask is a timer  *)
(* of delay 0, core.js:89-91); the messages of the controlling pages and    *)
(* the calls of the application may never come.                            *)
(***************************************************************************)
MonitoringMechs == {"window", "cast", "dial"}

NextMonitor ==
  \/ \E mech \in MonitoringMechs : RegisterPresentationMechanism(mech)
  \/ WindowLoad
  \/ MonitorTask
  \/ \E i \in 1..MaxMechs : IncomingController(i)
  \/ \E c \in ConnIds : ControllerChannelMessage(c)
  \/ GetConnection
  \/ \E p \in 1..MaxGets : GetConnectionTask(p)
  \/ GetConnections
  \/ \E k \in 1..MaxGets : GetConnectionsTask(k)

SpecMonitor ==
  /\ Init
  /\ [][NextMonitor]_vars
  /\ WF_vars(MonitorTask)
  /\ WF_vars(\E p \in 1..MaxGets : GetConnectionTask(p))
  /\ WF_vars(\E k \in 1..MaxGets : GetConnectionsTask(k))

(***************************************************************************)
(* The window mechanism with both of its pages: connection 1 is the        *)
(* controlling page's, on a WindowDisplay that start() has navigated       *)
(* (WindowDisplay.navigate has posted 'presentation', window.js:124-131);  *)
(* connection 2 is the one the receiving page creates for that controlling *)
(* window, and the receiver's variables are the receiving page's.  The     *)
(* messages between the two windows are delivered in the order posted:     *)
(* 'presentation' before 'channel'.                                        *)
(***************************************************************************)
InitWindows ==
    LET display == NewDisplay("WindowDisplay", 1, 1)
        cn == createPresentationConnection("u1", display, <<>>)
    IN /\ phase = "monitoring"
       /\ registeredMechanisms = <<"window">>
       /\ castApiAvailable = FALSE
       /\ conns = <<establishPresentationConnection(cn)>>
       /\ channels = <<>>
       /\ microtasks = {}
       /\ lastOp = PageOp
       /\ monitorQueued = FALSE
       /\ rcvConnection = 0
       /\ setOfIncomingPresentations = <<>>
       /\ rcvNotified = 0
       /\ rcvPending = NoPending
       /\ reported = <<0>>
       /\ setOfPresentations =
            <<[url |-> "u1", id |-> cn.id, connection |-> 1]>>
       /\ listOfAvailablePresentationDisplays = <<display>>
       /\ starts = <<[NewStart("u1") EXCEPT
                        !.pc = "done",
                        !.lists = <<Promised(TRUE, FALSE, <<display>>)>>,
                        !.order = <<1>>,
                        !.offered = <<display>>,
                        !.prompted = TRUE,
                        !.display = display,
                        !.connection = 1]>>
       /\ reconnects = <<>>
       /\ setOfAvailabilityObjects = <<>>
       /\ pw = [enabled |-> FALSE, pending |-> FALSE, promiseResolve |-> 0,
                probe |-> FALSE]
       /\ InitServer

\* 'presentation' reaches the receiving window, window.js:229-240.
Presentation ==
  /\ Len(conns) = 1
  /\ IncomingController(1)

\* 'channel' (window.js:172) reaches the receiving window: the pending
\* initMessageListener answers 'channelready' (window.js:54-64); without
\* one, nothing answers.
ChannelDelivered ==
  /\ microtasks = {}
  /\ Len(conns) >= 2
  /\ conns[1].inflight = "requested"
  /\ conns[1].wire = "none"
  /\ IF conns[2].inflight = "requested"
     THEN ControllerChannelMessageOn(
            [World EXCEPT !.conns[1].wire = "channelready",
                          !.conns[1].answered = conns[2].creating], 2)
     ELSE /\ Commit([World EXCEPT !.conns[1].wire = "lost"])
          /\ lastOp' = Op("channelmessage", 2, "ignored", <<>>)
          /\ UNCHANGED <<phase, registeredMechanisms, castApiAvailable,
                         microtasks, receiverVars, requestVars, serverVars>>

\* 'channelready' (window.js:61) reaches the controlling window.
ChannelReadyDelivered ==
  /\ Len(conns) >= 2
  /\ conns[1].wire = "channelready"
  /\ ChannelReadyOn([World EXCEPT !.conns[1].wire = "none"], 1)

NextWindows ==
  \/ Presentation
  \/ \E c \in ConnIds : ConnectionEventTask(c)
  \/ \E c \in ConnIds : EstablishTask(c)
  \/ ChannelDelivered
  \/ ChannelReadyDelivered
  \/ \E c \in ConnIds : AppCreateDataChannel(c)
  \/ \E c \in ConnIds : AppClose(c)

SpecWindows == InitWindows /\ [][NextWindows]_vars

\* The controlling page's Connection becomes connected in this step.
ControllerConnects ==
  /\ conns[1].state # "connected"
  /\ conns'[1].state = "connected"

MaxDevices == 3        \* DIAL devices on the network
MaxKnown == 3          \* length of the list of known devices

\* Array.prototype.indexOf, as a position from 1, and 0 for JavaScript's -1
IndexOf(list, x) ==
  IF \E i \in 1..Len(list) : list[i] = x
  THEN CHOOSE i \in 1..Len(list) :
         list[i] = x /\ \A j \in 1..(i - 1) : list[j] # x
  ELSE 0

\* What list.splice(pos, 1) returns: the elements it has removed from the
\* list.  A position of -1 is counted from the end.
Splice(list, pos) ==
  LET at == IF pos = 0 THEN Len(list) ELSE pos
  IN IF at = 0 THEN <<>> ELSE <<list[at]>>

\* monitorDialDevices, part_002:203-208: a new search period starts.
MonitorDialDevices ==
  /\ dialDevices' = <<>>
  /\ dialSearch' = [dialSearch EXCEPT !.present = {},
                                      !.old = dialSearch.pending,
                                      !.late = FALSE]
  /\ lastOp' = Op("monitorDialDevices", 0, "ok", <<>>)
  /\ UNCHANGED <<phase, registeredMechanisms, castApiAvailable, conns,
                 channels, microtasks, receiverVars, requestVars>>

\* 'found', part_002:222-223: the description of the device is requested.
DialFound(d) ==
  /\ d \notin dialSearch.present
  /\ d \notin dialSearch.pending
  /\ dialSearch' = [dialSearch EXCEPT !.present = @ \cup {d},
                                      !.pending = @ \cup {d}]
  /\ lastOp' = Op("found", d, "ok", <<>>)
  /\ UNCHANGED <<phase, registeredMechanisms, castApiAvailable, conns,
                 channels, microtasks, receiverVars, requestVars,
                 dialDevices>>

\* The callback of getDialDevice, part_002:223-229.
GetDialDeviceCallback(d) ==
  /\ d \in dialSearch.pending
  /\ Len(dialDevices) < MaxKnown
  /\ dialDevices' = Append(dialDevices, d)
  /\ dialSearch' = [dialSearch EXCEPT !.pending = @ \ {d},
                                      !.old = @ \ {d},
                                      !.late = @ \/ d \in dialSearch.old]
  /\ lastOp' = Op("getDialDevice", d, "ok", <<>>)
  /\ UNCHANGED <<phase, registeredMechanisms, castApiAvailable, conns,
                 channels, microtasks, receiverVars, requestVars>>

\* 'disappear', part_002:231-234
DialDisappear(d) ==
  /\ d \in dialSearch.present
  /\ dialDevices' = Splice(dialDevices, IndexOf(dialDevices, d))
  /\ dialSearch' = [dialSearch EXCEPT !.present = @ \ {d}]
  /\ lastOp' = Op("disappear", d, "ok", <<>>)
  /\ UNCHANGED <<phase, registeredMechanisms, castApiAvailable, conns,
                 channels, microtasks, receiverVars, requestVars>>

NextServer ==
  \/ MonitorDialDevices
  \/ \E d \in 1..MaxDevices : DialFound(d)
  \/ \E d \in 1..MaxDevices : GetDialDeviceCallback(d)
  \/ \E d \in 1..MaxDevices : DialDisappear(d)

SpecServer == Init /\ [][NextServer]_vars

\* C39: within one search period, once the descriptions requested have
\* arrived, the list of known DIAL devices holds exactly the devices found
\* and not since disappeared, each once.
C39_KnownDevices ==
  (dialSearch.pending = {} /\ ~dialSearch.late) =>
    /\ {dialDevices[i] : i \in 1..Len(dialDevices)} = dialSearch.present
    /\ Len(dialDevices) = Cardinality(dialSearch.present)

(***************************************************************************)
(* DataChannel objects on their own (core.js:142-189): channels in any     *)
(* state, and the calls of send and close on them.  In lastOp the channel  *)
(* takes the place of the connection.                                      *)
(***************************************************************************)
InitChannel ==
  /\ channels \in [1..MaxChans -> ChannelStates]
  /\ phase = "loaded"
  /\ registeredMechanisms = <<>>
  /\ castApiAvailable = FALSE
  /\ conns = <<>>
  /\ microtasks = {}
  /\ lastOp = PageOp
  /\ monitorQueued = TRUE
  /\ rcvConnection = 0
  /\ setOfIncomingPresentations = <<>>
  /\ rcvNotified = 0
  /\ rcvPending = NoPending
  /\ reported = <<>>
  /\ setOfPresentations = <<>>
  /\ listOfAvailablePresentationDisplays = <<>>
  /\ starts = <<>>
  /\ reconnects = <<>>
  /\ setOfAvailabilityObjects = <<>>
  /\ pw = [enabled |-> FALSE, pending |-> FALSE, promiseResolve |-> 0,
           probe |-> FALSE]
  /\ InitServer

\* DataChannel.close, core.js:180-188
DataChannelCloseState(state) ==
  IF state # "connected" THEN state ELSE "closed"

ChannelSend(ch) ==
  /\ ch \in 1..Len(channels)
  /\ lastOp' = Op("channel.send", ch, DataChannelSend(channels[ch]), <<>>)
  /\ UNCHANGED <<phase, registeredMechanisms, castApiAvailable, conns,
                 channels, microtasks, receiverVars, requestVars, serverVars>>

ChannelClose(ch) ==
  /\ ch \in 1..Len(channels)
  /\ channels' = [channels EXCEPT ![ch] = DataChannelCloseState(@)]
  /\ lastOp' = Op("channel.close", ch, "ok",
                  IF channels[ch] = "connected"
                  THEN <<[conn |-> 0, state |-> "closed"]>> ELSE <<>>)
  /\ UNCHANGED <<phase, registeredMechanisms, castApiAvailable, conns,
                 microtasks, receiverVars, requestVars, serverVars>>

NextChannel ==
  \/ \E ch \in 1..MaxChans : ChannelSend(ch)
  \/ \E ch \in 1..MaxChans : ChannelClose(ch)

SpecChannel == InitChannel /\ [][NextChannel]_vars

TypeOK ==
  /\ phase \in {"loading", "loaded", "monitoring"}
  /\ \A c \in ConnIds : conns[c].state \in ChannelStates
  /\ \A ch \in 1..Len(channels) : channels[ch] \in ChannelStates

(***************************************************************************)
(* Properties of a connection                                              *)
(***************************************************************************)
CreateOps == {"createDataChannel", "establish", "incoming"}

\* C1: a call of createDataChannel() made on a connection while an earlier
\* creation has not resolved yet completes without error: it returns the
\* pending promise, the remote peer is asked once and both callers get the
\* same channel.
C1_PendingCreationShared ==
  lastOp.op \in CreateOps => lastOp.result # "TypeError"

\* C2: once a connection is terminated its state never changes again.
C2_TerminatedIsTerminal ==
  [][\A c \in ConnIds :
        conns[c].state = "terminated" => conns'[c].state = "terminated"]_vars

\* terminate() has run to its end on connection c.
Terminated(c) == conns[c].terminateCalled /\ HasTerminate(conns[c].peer)

\* C3: send() on a connection terminate() was called on fails with
\* InvalidStateError: nothing is handed to the channel.
C3_NoSendAfterTerminate ==
  (lastOp.op = "send" /\ Terminated(lastOp.conn)) => lastOp.result # "sent"

\* C4: terminate() on a connection, whichever remote peer it wraps, closes
\* the channel held, asks the peer to terminate and leaves the connection
\* in state terminated.
C4_TerminateTerminates ==
  lastOp.op = "terminate" =>
     /\ lastOp.result = "ok"
     /\ conns[lastOp.conn].state = "terminated"
     /\ conns[lastOp.conn].channel = NoChannel

\* C5: whenever the state of the channel a connection holds changes to a
\* state other than the connection's, the connection takes that state and
\* its listener is told (terminate() then goes on to terminated); when the
\* two states are equal no notification is raised.
C5_StateFollowsChannel ==
  [][\A c \in ConnIds :
        LET ch == conns[c].channel IN
        (ch # NoChannel /\ channels'[ch] # channels[ch]) =>
           IF channels'[ch] # conns[c].state
           THEN /\ InSeq([conn |-> c, state |-> channels'[ch]],
                         lastOp'.notified)
                /\ (lastOp'.op # "terminate"
                      => conns'[c].state = channels'[ch])
           ELSE /\ lastOp'.notified = <<>>
                /\ conns'[c].state = conns[c].state]_vars

\* C6: a connection holds no channel that has left the state connected, so
\* that the next createDataChannel() cannot return a stale channel.
C6_NoStaleChannel ==
  \A c \in ConnIds :
     conns[c].channel # NoChannel => channels[conns[c].channel] = "connected"

(***************************************************************************)
(* Properties of start()                                                   *)
(***************************************************************************)
\* The aggregation of start call s has run.
HasAggregated(st) == st.pc \in {"navQueued", "navigating", "done", "failed"}

\* The candidates of the mechanisms other than i, in registration order.
Others(lists, i) ==
  Flatten([k \in 1..Len(lists) |->
             IF k = i THEN <<>> ELSE lists[k].displays])

\* C7: a start() whose discovery ends with no candidate, no mechanism being
\* registered or every mechanism returning an empty list, fails with
\* NotFoundError and never prompts the user.
C7_NoCandidateNotFound ==
  \A s \in 1..Len(starts) :
     LET st == starts[s] IN
     (st.pc \notin {"queued", "discovering"}
        /\ AllDone(st.lists)
        /\ Flatten([k \in 1..Len(st.lists) |-> st.lists[k].displays]) = <<>>)
     => (st.pc = "failed" /\ st.error = "NotFoundError" /\ ~st.prompted)

\* C8: when the discovery call of one mechanism ends in an internal error
\* and the calls of the other mechanisms have resolved, the aggregation of
\* that start() has completed, its candidate list is the candidates of the
\* other mechanisms and start() has not failed because of the error.
C8_FaultIsolation ==
  \A s \in 1..Len(starts) :
     LET st == starts[s] IN
     \A i \in 1..Len(st.lists) :
        (st.lists[i].failed
           /\ \A k \in 1..Len(st.lists) : k # i => st.lists[k].done)
        => /\ HasAggregated(st)
           /\ st.offered = Others(st.lists, i)
           /\ (st.error = "NotFoundError" => Others(st.lists, i) = <<>>)

\* C9: the candidate list of every discovery run is the lists of the
\* mechanisms, in the order of their registration whatever the order in
\* which they resolved, with nothing from an earlier run.
C9_RegistrationOrder ==
  \A s \in 1..Len(starts) :
     LET st == starts[s]
         o == st.offered IN
     HasAggregated(st) =>
        /\ \A k \in 1..Len(o) :
              /\ o[k].run = s
              /\ o[k].mech \in 1..Len(st.lists)
              /\ InSeq(o[k], st.lists[o[k].mech].displays)
        /\ \A k, l \in 1..Len(o) : k < l => o[k].mech < o[l].mech
        /\ \A i \in 1..Len(st.lists) :
              \A j \in 1..Len(st.lists[i].displays) :
                 InSeq(st.lists[i].displays[j], o)
        /\ \E t \in 1..Len(starts) :
              /\ HasAggregated(starts[t])
              /\ listOfAvailablePresentationDisplays = starts[t].offered

\* Two mechanisms contributed, the second one registered resolved first.
C9_Witness ==
  \E s \in 1..Len(starts) :
     /\ HasAggregated(starts[s])
     /\ starts[s].order = <<2, 1>>
     /\ Len(starts[s].offered) = 2

Succeeded == {s \in 1..Len(starts) : starts[s].pc = "done"}

\* C10: the connections of N successful start() calls carry N distinct
\* identifiers, increasing in the order of creation of the connections,
\* also when the calls overlap.
C10_DistinctIncreasingIds ==
  /\ \A i, j \in ConnIds : i < j => conns[i].id < conns[j].id
  /\ \A s, t \in Succeeded :
        s # t => conns[starts[s].connection].id
                    # conns[starts[t].connection].id
  /\ Cardinality({conns[starts[s].connection].id : s \in Succeeded})
        = Cardinality(Succeeded)

\* Two overlapping calls succeeded, the later one first.
C10_Witness ==
  /\ Succeeded = {1, 2}
  /\ starts[2].connection = 1
  /\ starts[1].connection = 2

(***************************************************************************)
(* Properties of reconnect(), send() and close()                           *)
(***************************************************************************)
Known(url, id) ==
  {k \in 1..Len(setOfPresentations) :
     setOfPresentations[k].url = url /\ setOfPresentations[k].id = id}

\* C11: reconnect(id) of a request for url, once its task has run, has
\* resolved with the connection a successful start() registered for
\* (url, id), no connection being created, and has failed with
\* NotFoundError when no presentation is known for that pair.
C11_ReconnectOriginal ==
  /\ Len(conns) = Len(setOfPresentations)
  /\ \A r \in 1..Len(reconnects) :
        LET rc == reconnects[r] IN
        rc.pc # "queued" =>
           IF Known(rc.url, rc.id) # {}
           THEN /\ rc.pc = "done"
                /\ \A k \in Known(rc.url, rc.id) :
                      rc.connection = setOfPresentations[k].connection
                /\ \E s \in 1..Len(starts) :
                      /\ starts[s].pc = "done"
                      /\ starts[s].connection = rc.connection
                      /\ conns[rc.connection].id = rc.id
           ELSE rc.pc = "NotFoundError" /\ rc.connection = 0

C11_Witness ==
  \E r \in 1..Len(reconnects) :
     reconnects[r].pc = "done" /\ reconnects[r].connection = 1

\* C12: send() hands the message to the channel only when the connection
\* holds a channel and is connected; it fails with InvalidStateError, cause
\* "not available", when no channel is held, and with InvalidStateError,
\* cause "closed", when a channel is held and the state is not connected;
\* a send() changes no state and queues nothing.
C12_SendGuards ==
  [][lastOp'.op = "send" =>
       LET cn == conns[lastOp'.conn] IN
       /\ cn.channel = NoChannel
            => lastOp'.result = "InvalidStateError: not available"
       /\ (cn.channel # NoChannel /\ cn.state # "connected")
            => lastOp'.result = "InvalidStateError: closed"
       /\ (cn.channel # NoChannel /\ cn.state = "connected")
            => lastOp'.result = DataChannelSend(channels[cn.channel])
       /\ conns' = conns
       /\ channels' = channels
       /\ microtasks' = microtasks]_vars

\* A send() on a connection that holds a channel and is not connected.
C12_Witness ==
  /\ lastOp.op = "send"
  /\ lastOp.result = "InvalidStateError: closed"
  /\ conns[lastOp.conn].channel # NoChannel
  /\ conns[lastOp.conn].state # "connected"

\* C13: send() on a channel that is closed, connecting or terminated fails
\* with InvalidStateError, and no send() changes the state of a channel.
C13_ChannelSendGuard ==
  [][lastOp'.op = "channel.send" =>
       /\ channels[lastOp'.conn] # "connected"
            => lastOp'.result = "InvalidStateError"
       /\ channels' = channels]_vars

C13_Witness ==
  /\ lastOp.op = "channel.send"
  /\ channels[lastOp.conn] = "terminated"
  /\ lastOp.result = "InvalidStateError"

\* C14: close() on a channel that is not connected changes nothing and
\* raises no notification; on a connected channel it sets the state to
\* closed and raises one state-change notification, so that repeated calls
\* raise one in total; and no step takes a closed channel back to connected.
C14_CloseOnce ==
  [][/\ lastOp'.op = "close" =>
          LET ch == conns[lastOp'.conn].channel IN
          IF ch # NoChannel /\ channels[ch] = "connected"
          THEN /\ channels'[ch] = "closed"
               /\ Len(lastOp'.notified) = 1
               /\ lastOp'.notified[1].state = "closed"
          ELSE /\ channels' = channels
               /\ lastOp'.notified = <<>>
     /\ \A ch \in 1..Len(channels) :
           channels[ch] = "closed" => channels'[ch] # "connected"]_vars

\* A close() repeated on a connection whose channel an earlier close() closed.
C14_Witness ==
  /\ lastOp.op = "close"
  /\ lastOp.notified = <<>>
  /\ conns[lastOp.conn].state = "closed"
  /\ conns[lastOp.conn].channel = NoChannel
  /\ \E ch \in 1..Len(channels) : channels[ch] = "closed"

(***************************************************************************)
(* Properties of the selection, of the navigation and of the notification  *)
(* of start()                                                              *)
(***************************************************************************)
\* The text is a number: an optional sign and digits, nothing else.
Numeric(text) ==
  LET body == IF text # <<>> /\ Head(text) \in {"-", "+"}
              THEN Tail(text) ELSE text
  IN body # <<>> /\ \A i \in 1..Len(body) : IsDigit(body[i])

InvalidSelection(choice, list) ==
  \/ choice = Cancelled
  \/ ~Numeric(choice)
  \/ parseInt(choice).value \notin 1..Len(list)

\* C15: a start() whose prompt was cancelled, or answered with a text that
\* is no number or with a number that is no position of the candidate
\* list, has failed with AbortError; and a start() that failed with
\* AbortError has navigated no display.
C15_InvalidSelectionAborts ==
  /\ lastOp.op = "select" =>
        LET st == starts[lastOp.conn] IN
        InvalidSelection(lastOp.choice, st.offered)
           => (st.pc = "failed" /\ st.error = "AbortError")
  /\ \A s \in 1..Len(starts) :
        starts[s].error = "AbortError"
           => (starts[s].pc = "failed" /\ starts[s].display.kind = "none")

\* C16: a start() that failed after a display was selected, that is because
\* navigate(url) failed, has failed with OperationError, whatever the
\* mechanism of the display.
C16_NavigateFailsOperationError ==
  \A s \in 1..Len(starts) :
     (starts[s].pc = "failed" /\ starts[s].display.kind # "none")
        => starts[s].error = "OperationError"

\* C17: when the event task queued for the connection a successful start()
\* created has run, the connection-available notification has been
\* delivered to the handler registered on the request, whatever the state
\* of the channel.
C17_ConnectionAvailableDelivered ==
  (/\ lastOp.op = "connectionevent"
   /\ \E s \in 1..Len(starts) :
         starts[s].pc = "done" /\ starts[s].connection = lastOp.conn)
     => lastOp.result = "delivered"

(***************************************************************************)
(* Properties of the receiver                                              *)
(***************************************************************************)
Listed(c) ==
  {i \in 1..Len(setOfIncomingPresentations) :
     setOfIncomingPresentations[i].connection = c}

\* C18: no connection is twice in the list of incoming presentations, and
\* once the channel of every reported controller is established the list
\* holds the connection of each controller exactly once, with pairwise
\* distinct identifiers, and one notification was raised per controller.
C18_OneConnectionPerController ==
  /\ \A c \in ConnIds : Cardinality(Listed(c)) <= 1
  /\ (\A c \in ConnIds : ~conns[c].rcvThen) =>
        /\ \A c \in ConnIds : Cardinality(Listed(c)) = 1
        /\ \A c, d \in ConnIds : c # d => conns[c].id # conns[d].id
        /\ rcvNotified = Len(conns)

\* C19: a resolved promise of getConnection() has for value the connection
\* of the controller that was reported first.
C19_FirstEverConnection ==
  \A p \in 1..Len(rcvPending.promises) :
     rcvPending.promises[p].pc = "resolved"
        => rcvPending.promises[p].value = 1

\* C20: the calls of getConnection() made before any controller is
\* reported all return the same promise; at most one resolution is parked,
\* that of the promise pendingPromise names; none stays parked once a
\* connection is in the list; and no promise is resolved twice.
C20_OneParkedResolution ==
  /\ \A i, j \in 1..Len(rcvPending.calls) :
        (rcvPending.calls[i].early /\ rcvPending.calls[j].early)
           => rcvPending.calls[i].promise = rcvPending.calls[j].promise
  /\ \A p \in 1..Len(rcvPending.promises) :
        /\ rcvPending.promises[p].pc = "parked"
             => /\ rcvPending.pendingResolveFunction = p
                /\ rcvPending.pendingPromise = p
                /\ setOfIncomingPresentations = <<>>
        /\ rcvPending.promises[p].resolved <= 1
        /\ rcvPending.promises[p].pc = "resolved"
             <=> rcvPending.promises[p].resolved = 1

\* Two calls before any controller was reported, and the promise they share
\* resolved by the arrival of a connection after it was parked.
C20_Witness ==
  /\ Len(rcvPending.calls) = 2
  /\ rcvPending.calls[1].early /\ rcvPending.calls[2].early
  /\ rcvPending.promises[1].pc = "resolved"
  /\ rcvPending.pendingPromise = 0
  /\ lastOp.op \in {"incoming", "channelmessage"}
  /\ Len(setOfIncomingPresentations) = 1

\* C21: a resolved promise of getConnections() holds the incoming
\* connections in the order in which their controllers were reported, each
\* once (none when no connection has come in).
C21_SnapshotInArrivalOrder ==
  \A k \in 1..Len(rcvPending.snapshots) :
     LET snap == rcvPending.snapshots[k] IN
     snap.pc = "resolved" =>
        /\ \A i \in 1..Len(snap.value) : snap.value[i] \in ConnIds
        /\ \A i, j \in 1..Len(snap.value) :
              i < j => snap.value[i] < snap.value[j]

(***************************************************************************)
(* Properties of the request: options, availability, order of the steps    *)
(***************************************************************************)
\* C22: a display of a mechanism that cannot set up a channel by itself is
\* in the list offered by a start() only if the request was constructed
\* with isChannelOptional; and a request constructed with it is offered the
\* QR code display whenever that mechanism is registered, and the Physical
\* Web display whenever that mechanism is registered and its backend has
\* answered.
C22_ChannelLessOnlyWhenOptional ==
  \A s \in 1..Len(starts) :
     HasAggregated(starts[s]) =>
        /\ \A k \in 1..Len(starts[s].offered) :
              starts[s].offered[k].kind \in ChannelLessDisplays
                 => "isChannelOptional" \in starts[s].options
        /\ "isChannelOptional" \in starts[s].options =>
              \A i \in 1..Len(registeredMechanisms) :
                 (\/ registeredMechanisms[i] = "qrcode"
                  \/ (/\ registeredMechanisms[i] = "physicalweb"
                      /\ ~starts[s].lists[i].failed))
                    => \E k \in 1..Len(starts[s].offered) :
                          starts[s].offered[k].mech = i

\* C23: every call of getAvailability() is rejected with NotSupportedError,
\* registers no availability object and changes nothing else of the
\* request engine, of the connections or of the mechanisms.
C23_AvailabilityNotSupported ==
  [][lastOp'.op = "getAvailability" =>
       /\ lastOp'.result = "NotSupportedError"
       /\ setOfAvailabilityObjects' = <<>>
       /\ UNCHANGED <<setOfAvailabilityObjects, setOfPresentations,
                      listOfAvailablePresentationDisplays, starts,
                      reconnects, pw, conns, channels,
                      registeredMechanisms>>]_vars

\* A call of getAvailability() while a start() is under way and another
\* one has created its connection.
C23_Witness ==
  /\ lastOp.op = "getAvailability"
  /\ \E s \in 1..Len(starts) : starts[s].pc = "navigating"
  /\ \E s \in 1..Len(starts) : starts[s].pc = "done"

\* C27: within one call of start() the steps follow each other: the
\* selection takes place only once the list of every mechanism has
\* arrived, navigate() is called only on a display that was selected, and
\* the connection is created and registered only when the promise of
\* navigate() has been resolved.
C27_StepsInSequence ==
  [][\A s \in 1..Len(starts') :
        LET old == IF s <= Len(starts) THEN starts[s]
                   ELSE NewStart(starts'[s].url)
            new == starts'[s]
        IN /\ (new.prompted /\ ~old.prompted) =>
                /\ Len(new.lists) > 0
                /\ \A k \in 1..Len(new.lists) : new.lists[k].done
           /\ (new.display.kind # "none" /\ old.display.kind = "none") =>
                /\ new.prompted
                /\ InSeq(new.display, new.offered)
           /\ (old.pc = "navQueued" /\ new.pc # "navQueued") =>
                /\ old.prompted
                /\ old.display.kind # "none"
                /\ new.pc \in {"navigating", "failed"}
           /\ (new.pc = "navigating" /\ old.pc # "navigating") =>
                old.pc = "navQueued"
           /\ (new.connection # 0 /\ old.connection = 0) =>
                /\ old.pc = "navigating"
                /\ new.pc = "done"
                /\ new.connection \in 1..Len(conns')
                /\ new.connection \notin ConnIds
                /\ conns'[new.connection].peer = old.display.kind
                /\ \E k \in 1..Len(setOfPresentations') :
                      setOfPresentations'[k].connection = new.connection
           /\ (new.pc = "done") => new.connection # 0]_vars

\* A start() whose second list arrived before its first one and that went
\* through every step, down to its connection.
C27_Witness ==
  \E s \in 1..Len(starts) :
     /\ starts[s].pc = "done"
     /\ starts[s].order = <<2, 1>>
     /\ starts[s].connection \in ConnIds

\* C32: a start() that fails (NotFoundError, AbortError or a failure of
\* the navigation) creates no connection, allocates no identifier and
\* leaves the set of known presentations as it was: the step on which a
\* call fails changes neither, a failed call has no connection, and there
\* are as many connections and as many known presentations as calls that
\* succeeded.
C32_FailedStartCreatesNothing ==
  [][/\ \A s \in 1..Len(starts') :
          starts'[s].pc = "failed" =>
             /\ starts'[s].connection = 0
             /\ starts'[s].error \in
                  {"NotFoundError", "AbortError", "OperationError",
                   "undefined"}
             /\ (s <= Len(starts) /\ starts[s].pc # "failed") =>
                   UNCHANGED <<conns, setOfPresentations>>
     /\ Len(conns') = Cardinality({s \in 1..Len(starts') :
                                     starts'[s].pc = "done"})
     /\ Len(setOfPresentations') = Len(conns')]_vars

\* A start() whose navigation failed after another call had registered its
\* presentation.
C32_Witness ==
  /\ \E s \in 1..Len(starts) :
        starts[s].pc = "failed" /\ starts[s].error = "OperationError"
  /\ Len(setOfPresentations) = 1
  /\ Len(conns) = 1

\* C33: when calls of start() overlap, the list a call offers for
\* selection holds the displays of its own discovery run only, and the
\* display it navigates is one of them; the step that prompts the user
\* reads the list that call has just aggregated.
C33_OwnDiscoveryRun ==
  [][\A s \in 1..Len(starts') :
        LET st == starts'[s] IN
        /\ \A k \in 1..Len(st.offered) : st.offered[k].run = s
        /\ st.display.kind # "none" =>
              (st.display.run = s /\ InSeq(st.display, st.offered))
        /\ (st.prompted /\ s <= Len(starts) /\ ~starts[s].prompted) =>
              listOfAvailablePresentationDisplays' = st.offered]_vars

\* Two calls that overlap: both were made before either discovery task
\* ran, and the second one has selected its display while the first one is
\* still navigating.
C33_Witness ==
  /\ Len(starts) = 2
  /\ starts[1].pc = "navigating"
  /\ starts[2].pc \in {"navQueued", "navigating"}
  /\ starts[1].display.run = 1
  /\ starts[2].display.run = 2

(***************************************************************************)
(* Properties of the connection: notifications and terminated              *)
(***************************************************************************)
\* C24: terminate() on a connection that is not terminated raises exactly
\* one state-change notification, also when the connection is connected
\* and holds a live channel; on a terminated connection it raises none.
C24_TerminateNotifiesOnce ==
  [][\A c \in ConnIds :
        (lastOp'.op = "terminate" /\ lastOp'.conn = c) =>
           Len(lastOp'.notified) =
              IF conns[c].state # "terminated" THEN 1 ELSE 0]_vars

\* C25: a connection becomes terminated only by a call of terminate() on
\* that connection; following the state of a channel never moves a
\* connection to terminated.
C25_TerminatedOnlyByTerminate ==
  [][\A c \in ConnIds :
        (conns[c].state # "terminated" /\ conns'[c].state = "terminated")
           => (lastOp'.op = "terminate" /\ lastOp'.conn = c)]_vars

\* C26: in every reachable state a connection that holds a channel is in
\* the state of that channel.
C26_StateEqualsHeldChannel ==
  \A c \in ConnIds :
     conns[c].channel # NoChannel =>
        conns[c].state = channels[conns[c].channel]

(***************************************************************************)
(* Properties of reconnect()                                               *)
(***************************************************************************)
\* What a step of reconnect() leaves alone: no discovery and no navigation
\* (the start calls, the Physical Web promise and the channels are as
\* before), the known presentations and the candidate list are unchanged
\* and no connection is created.
ReconnectFrame ==
  /\ UNCHANGED <<setOfPresentations, listOfAvailablePresentationDisplays,
                 starts, pw, channels, setOfAvailabilityObjects>>
  /\ Len(conns') = Len(conns)
  /\ \A c \in ConnIds : c # lastOp'.conn => conns'[c] = conns[c]
  /\ lastOp'.result # "resolved" => conns' = conns

\* C28 as stated: reconnect(id), whether it succeeds or fails, runs no
\* discovery and no navigation and leaves the known presentations and the
\* candidate list unchanged; when it succeeds it queues the channel
\* establishment on the existing connection again.
C28_ReconnectReestablishes ==
  [][lastOp'.op = "reconnect" =>
       /\ ReconnectFrame
       /\ lastOp'.result = "resolved" =>
            LET c == lastOp'.conn IN
            conns'[c] = [conns[c] EXCEPT !.eventTasks = @ + 1,
                                         !.estTasks = @ + 1]]_vars

\* C28, amended: as above, but a successful reconnect() queues the event
\* task only, and not the channel establishment, when the connection is
\* connected.
C28_ReconnectReestablishesUnlessConnected ==
  [][lastOp'.op = "reconnect" =>
       /\ ReconnectFrame
       /\ lastOp'.result = "resolved" =>
            LET c == lastOp'.conn IN
            conns'[c] = [conns[c] EXCEPT
                           !.eventTasks = @ + 1,
                           !.estTasks = IF conns[c].state = "connected"
                                        THEN @ ELSE @ + 1]]_vars

\* A reconnect() that succeeded on a connected connection: only the event
\* task is queued.
C28_Witness ==
  /\ lastOp.op = "reconnect"
  /\ lastOp.result = "resolved"
  /\ conns[lastOp.conn].state = "connected"
  /\ conns[lastOp.conn].eventTasks > 0
  /\ conns[lastOp.conn].estTasks = 0

(***************************************************************************)
(* Properties of the monitoring of incoming controllers                    *)
(***************************************************************************)
\* C29: no mechanism reports a controller during the call of
\* monitorIncomingControllers() itself, before the handler is installed:
\* no controller a mechanism has detected is lost.
C29_NoControllerLost ==
  \A i \in 1..Len(reported) : reported[i] # 2

\* The state of promise p of getConnection(), "none" before it is made.
PromiseState(p) ==
  IF p \in 1..Len(rcvPending.promises)
  THEN rcvPending.promises[p].pc ELSE "none"

\* C30: every controller a mechanism has reported is eventually in the list
\* of incoming presentations and notified, and a getConnection() that is
\* parked when a controller has been reported is eventually resolved,
\* whether or not the channel of that controller is ever established.
C30_ReportedEventuallyListed ==
  /\ \A c \in 1..MaxControllers :
        (c \in ConnIds) ~> (Listed(c) # {} /\ rcvNotified > 0)
  /\ \A p \in 1..MaxGets :
        (PromiseState(p) = "parked" /\ conns # <<>>)
           ~> (PromiseState(p) = "resolved")

C34_RejectedCreationRetried ==
  [][\A c \in ConnIds :
        /\ conns'[c].inflight = "rejected" =>
              /\ conns'[c].channel = NoChannel
              /\ conns[c].inflight # "rejected" =>
                    conns'[c].state = conns[c].state
        /\ (/\ conns[c].inflight = "rejected"
            /\ lastOp'.op \in {"createDataChannel", "establish"}
            /\ lastOp'.conn = c)
              => lastOp'.result = "created"]_vars

\* C35: close() on a connection that holds a connected channel closes the
\* channel, leaves the connection closed after exactly one notification and
\* drops the reference, so that the next createDataChannel() creates a
\* channel; close() on a connection that holds no channel changes nothing;
\* no close() makes a connection terminated.
C35_CloseDropsChannel ==
  [][lastOp'.op = "close" =>
       LET c == lastOp'.conn
           ch == conns[c].channel
       IN /\ (ch # NoChannel /\ channels[ch] = "connected") =>
                /\ channels'[ch] = "closed"
                /\ conns'[c].state = "closed"
                /\ lastOp'.notified = <<[conn |-> c, state |-> "closed"]>>
                /\ conns'[c].channel = NoChannel
                /\ CreateDataChannelResult(conns'[c]) = "created"
          /\ ch = NoChannel =>
                /\ conns' = conns
                /\ channels' = channels
                /\ lastOp'.notified = <<>>
          /\ conns'[c].state = "terminated" =>
                conns[c].state = "terminated"]_vars

\* A close() that closed the connected channel of a connection that had
\* closed and re-created its channel before.
C35_Witness ==
  /\ lastOp.op = "close"
  /\ lastOp.notified = <<[conn |-> lastOp.conn, state |-> "closed"]>>
  /\ conns[lastOp.conn].channel = NoChannel
  /\ Len(channels) >= 2
  /\ \A ch \in 1..Len(channels) : channels[ch] = "closed"

\* C36: a reconnect() that finds a connected connection asks the peer for
\* no channel and changes neither the state nor the channel of the
\* connection; on a connection in another state it queues one
\* establishment task, and an establishment task asks the peer for at most
\* one channel.
C36_ReconnectConnectedIsIdle ==
  [][/\ (lastOp'.op = "reconnect" /\ lastOp'.result = "resolved") =>
          LET c == lastOp'.conn IN
          /\ channels' = channels
          /\ conns'[c].state = conns[c].state
          /\ conns'[c].channel = conns[c].channel
          /\ conns'[c].creating = conns[c].creating
          /\ conns'[c].pendingPromise = conns[c].pendingPromise
          /\ conns'[c].estTasks =
               IF conns[c].state = "connected"
               THEN conns[c].estTasks ELSE conns[c].estTasks + 1
     /\ lastOp'.op = "establish" =>
          LET c == lastOp'.conn IN
          /\ conns'[c].estTasks = conns[c].estTasks - 1
          /\ Len(channels') <= Len(channels) + 1
          /\ Len(conns'[c].listeners) <= Len(conns[c].listeners) + 1]_vars

\* A reconnect() that found its connection connected, with its channel
\* connected, and left no establishment to run.
C36_Witness ==
  /\ lastOp.op = "reconnect"
  /\ lastOp.result = "resolved"
  /\ conns[lastOp.conn].state = "connected"
  /\ conns[lastOp.conn].channel # NoChannel
  /\ channels[conns[lastOp.conn].channel] = "connected"
  /\ conns[lastOp.conn].estTasks = 0

(***************************************************************************)
(* Properties of the Physical Web mechanism                                *)
(***************************************************************************)
\* C37: every call of the Physical Web mechanism's getAvailableDisplays is
\* resolved when the status probe has completed or timed out, a call made
\* while an earlier one was waiting included: once no probe is under way,
\* no start() is left with the list of the mechanism unresolved.
C37_EveryProbeCallResolves ==
  (HasPhysicalWeb /\ ~pw.probe /\ ~pw.pending) =>
     \A s \in 1..Len(starts) :
        \A k \in 1..Len(starts[s].lists) :
           registeredMechanisms[k] = "physicalweb" => starts[s].lists[k].done
====
